---- MODULE Spec2Model ----
(***************************************************************************)
(* Transaction classification and journal-entry resolution engine of       *)
(* bflow-ai: PostingEngineResolver.resolve (three copies in the            *)
(* repository), ConversationContext and RagAccounting.ask.                 *)
(*                                                                         *)
(* Python values are modelled as follows.  A dict is a function with a     *)
(* finite domain (d.get(k, v) is Get(d, k, v)); a list is a sequence; a    *)
(* missing optional key is a key absent from the record's domain; None is  *)
(* the string "None".  A text is the sequence of its words; the words of   *)
(* the lexicon are spelled in ASCII after VIQR: ^ ( + mark the shape of a  *)
(* vowel, / - ? ~ . its tone (acute, grave, hook, tilde, dot below) and dd *)
(* is the barred d, so that a^. is the letter a with circumflex and dot    *)
(* below.  SPELLING gives the characters of each word, one for each        *)
(* character of the Python string, and substring tests and lengths are     *)
(* taken on the characters.  Scores are counted in units of 1/ScoreUnit    *)
(* and similarities in units of 1/SimilarityUnit.                          *)
(***************************************************************************)
EXTENDS Naturals, Integers, Sequences, FiniteSets, TLC

VARIABLES
    DOCUMENT_TYPES,  \* rag_service.py:24   the document types, in declared order
    POSTING_RULES,   \* rag_service.py:25   je_doc_type -> list of rules
    GL_MAPPING,      \* rag_service.py:26   group code -> (role_key -> account)
    POSTING_GROUPS,  \* rag_service.py:27   group code -> posting group record
    PYTHONHASHSEED,  \* the order in which this process iterates its sets
    similarity,      \* rag_service.py:561  the embedding model: what encode and
                     \*                     the dot products give on each question
    max_history,     \* rag_service.py:648  ConversationContext.max_history
    history,         \* rag_service.py:649  ConversationContext.history
    op,              \* the last call made on the engine and its arguments
    ret,             \* what that call returned, or the exception it raised
    earlier,         \* history variable: one earlier call (the import, a
                     \* resolve, a retrieve or an ask) and what it returned
    calls            \* rag_service.py:750 the calls of ask that are running,
                     \*                    one per thread: where each one is
                     \*                    and its local variables

vars == <<DOCUMENT_TYPES, POSTING_RULES, GL_MAPPING, POSTING_GROUPS,
          PYTHONHASHSEED, similarity, max_history, history, op, ret, earlier,
          calls>>

\* what is loaded and built at start-up
config == <<DOCUMENT_TYPES, POSTING_RULES, GL_MAPPING, POSTING_GROUPS,
            PYTHONHASHSEED, similarity>>

context == <<max_history, history>>

-----------------------------------------------------------------------------
(* Python helpers *)

\* dict.get(k, default)
Get(d, k, default) == IF k \in DOMAIN d THEN d[k] ELSE default

EmptyDict == [k \in {} |-> "None"]

NoCall == [name |-> "none"]

\* no call of ask is running
NoCalls == <<>>

Returned(v) == [raised |-> FALSE, value |-> v]

Raised(e) == [raised |-> TRUE, error |-> e]

-----------------------------------------------------------------------------
(* Names, rag_service.py:59-66, written without their tone marks *)

TRANSACTION_NAMES ==
    [DO_SALE          |-> "Phieu xuat kho ban hang",
     SALES_INVOICE    |-> "Hoa don phai thu",
     CASH_IN          |-> "Phieu thu tien",
     GRN_PURCHASE     |-> "Phieu nhap kho mua hang",
     PURCHASE_INVOICE |-> "Hoa don phai chi",
     CASH_OUT         |-> "Phieu chi tien"]

-----------------------------------------------------------------------------
(* PostingEngineResolver *)

\* sorted(rules, key=lambda x: x["priority"]) with the rules left as configured
unsorted_rules(rules) == rules

\* sorted(rules, key=lambda x: x["priority"]): a stable sort, ascending
RECURSIVE sorted_by_priority(_)
sorted_by_priority(rules) ==
    IF rules = <<>> THEN <<>>
    ELSE LET n    == Len(rules)
             head == sorted_by_priority(SubSeq(rules, 1, n - 1))
             last == rules[n]
             k    == Cardinality({i \in 1..Len(head) :
                                     head[i].priority <= last.priority})
         IN  SubSeq(head, 1, k) \o <<last>> \o SubSeq(head, k + 1, Len(head))

\* the LOOKUP branch with the two tables consulted the other way round
lookup_account_swapped(role_key, item_group, partner_group) ==
    LET item_group_info == Get(POSTING_GROUPS, item_group, EmptyDict)
    IN  IF Get(item_group_info, "posting_group_type", "None") = "ITEM_GROUP"
        THEN Get(Get(GL_MAPPING, partner_group, EmptyDict), role_key, "")
        ELSE Get(Get(GL_MAPPING, item_group, EmptyDict), role_key, "")

\* the LOOKUP branch, identical in the three copies of resolve
lookup_account(role_key, item_group, partner_group) ==
    LET item_group_info == Get(POSTING_GROUPS, item_group, EmptyDict)
    IN  IF Get(item_group_info, "posting_group_type", "None") = "ITEM_GROUP"
        THEN Get(Get(GL_MAPPING, item_group, EmptyDict), role_key, "")
        ELSE Get(Get(GL_MAPPING, partner_group, EmptyDict), role_key, "")

account_source_type(r) == Get(r, "account_source_type", "FIXED")

\* the if / elif chain with a LOOKUP branch that turns to the other group
\* when the selected one has no account for the role
account_of_either_group(r, item_group, partner_group) ==
    IF account_source_type(r) = "FIXED"
    THEN Get(r, "fixed_account_code", "")
    ELSE IF account_source_type(r) = "LOOKUP"
    THEN IF lookup_account(r.role_key, item_group, partner_group) # ""
         THEN lookup_account(r.role_key, item_group, partner_group)
         ELSE lookup_account(r.role_key, partner_group, item_group)
    ELSE ""

\* acc as the if / elif chain of resolve leaves it ("" when no branch is
\* taken, which only the copies that initialise acc = "" can reach)
account_of(r, item_group, partner_group) ==
    IF account_source_type(r) = "FIXED"
    THEN Get(r, "fixed_account_code", "")
    ELSE IF account_source_type(r) = "LOOKUP"
    THEN lookup_account(r.role_key, item_group, partner_group)
    ELSE ""

\* the entry appended by rag_service.py: no is_lookup key
entry_rag_service(r, item_group, partner_group) ==
    [side        |-> r.side,
     account     |-> account_of(r, item_group, partner_group),
     priority    |-> r.priority,
     description |-> Get(r, "description", "")]

\* the entry appended by rag_posting_engine.py and posting_engine_agent.py
entry_with_flag(r, item_group, partner_group) ==
    [side        |-> r.side,
     account     |-> account_of(r, item_group, partner_group),
     priority    |-> r.priority,
     description |-> Get(r, "description", ""),
     is_lookup   |-> account_source_type(r) = "LOOKUP"]

\* a resolve that drops the entries whose account came out empty
resolve_skipping_empty(tx, item_group, partner_group) ==
    LET rules == sorted_by_priority(Get(POSTING_RULES, tx, <<>>))
        all   == [i \in 1..Len(rules) |->
                    entry_with_flag(rules[i], item_group, partner_group)]
    IN  Returned(SelectSeq(all, LAMBDA e : e.account # ""))

\* rag_posting_engine.py PostingEngineResolver.resolve
resolve_rag_posting_engine(tx, item_group, partner_group) ==
    LET rules == sorted_by_priority(Get(POSTING_RULES, tx, <<>>))
    IN  Returned([i \in 1..Len(rules) |->
                    entry_with_flag(rules[i], item_group, partner_group)])

\* posting_engine_agent.py PostingEngineResolver.resolve
resolve_posting_engine_agent(tx, item_group, partner_group) ==
    LET rules == sorted_by_priority(Get(POSTING_RULES, tx, <<>>))
    IN  Returned([i \in 1..Len(rules) |->
                    entry_with_flag(rules[i], item_group, partner_group)])

\* a resolve whose entries list outlives the call: the entries of a call
\* follow those the call before it returned
resolve_accumulating(tx, item_group, partner_group) ==
    LET rules == sorted_by_priority(Get(POSTING_RULES, tx, <<>>))
        kept  == IF op.name = "resolve" /\ ~ ret.raised
                    /\ Len(ret.value) <= Len(rules)
                 THEN ret.value ELSE <<>>
    IN  IF \E i \in 1..Len(rules) :
                account_source_type(rules[i]) \notin {"FIXED", "LOOKUP"}
        THEN Raised("ValueError")
        ELSE Returned(kept \o
                      [i \in 1..Len(rules) |->
                         entry_rag_service(rules[i], item_group, partner_group)])

\* rag_service.py PostingEngineResolver.resolve: the only copy that raises
\* on an account_source_type that is neither FIXED nor LOOKUP
resolve_rag_service(tx, item_group, partner_group) ==
    LET rules == sorted_by_priority(Get(POSTING_RULES, tx, <<>>))
    IN  IF \E i \in 1..Len(rules) :
                account_source_type(rules[i]) \notin {"FIXED", "LOOKUP"}
        THEN Raised("ValueError")
        ELSE Returned([i \in 1..Len(rules) |->
                         entry_rag_service(rules[i], item_group, partner_group)])

Copies == {"rag_service", "rag_posting_engine", "posting_engine_agent"}

resolve(copy, tx, item_group, partner_group) ==
    CASE copy = "rag_service" ->
            resolve_rag_service(tx, item_group, partner_group)
      [] copy = "rag_posting_engine" ->
            resolve_rag_posting_engine(tx, item_group, partner_group)
      [] copy = "posting_engine_agent" ->
            resolve_posting_engine_agent(tx, item_group, partner_group)


-----------------------------------------------------------------------------
(* ConversationContext *)

\* ConversationContext.__init__: max_history: int = 5
MAX_HISTORY_DEFAULT == 5

\* TRANSACTION_NAMES.get(transaction, transaction)
transaction_name(transaction) == Get(TRANSACTION_NAMES, transaction, transaction)

history_entry(question, transaction) ==
    [question         |-> question,
     transaction      |-> transaction,
     transaction_name |-> transaction_name(transaction)]

\* add with history.pop() in place of history.pop(0): drops the newest entry
add_dropping_newest(h, question, transaction) ==
    IF Len(h) + 1 > max_history THEN h
    ELSE Append(h, history_entry(question, transaction))

\* ConversationContext.add: append, then pop(0) when over max_history
add(h, question, transaction) ==
    LET appended == Append(h, history_entry(question, transaction))
    IN  IF Len(appended) > max_history THEN Tail(appended) ELSE appended

\* history[-n:] of Python: the whole list when n = 0 or n >= len
last_items(items, n) ==
    IF n = 0 \/ n >= Len(items) THEN items
    ELSE SubSeq(items, Len(items) - n + 1, Len(items))

valid_item(item) == "question" \in DOMAIN item /\ "transaction" \in DOMAIN item

RECURSIVE loaded_entries(_)
loaded_entries(items) ==
    IF items = <<>> THEN <<>>
    ELSE LET rest == loaded_entries(Tail(items))
         IN  IF valid_item(Head(items))
             THEN <<history_entry(Head(items).question,
                                  Head(items).transaction)>> \o rest
             ELSE rest

\* ConversationContext.load: the valid items among the last max_history
load(items) == loaded_entries(last_items(items, max_history))

\* ConversationContext.get_last_transaction
get_last_transaction(h) ==
    IF h # <<>> THEN h[Len(h)].transaction ELSE "None"

-----------------------------------------------------------------------------
(* The hardcoded dictionaries of rag_service.py.  Scores are counted in     *)
(* units of 1/ScoreUnit, so that every weight of the retriever is a whole  *)
(* number: 3.0 is 3 * ScoreUnit, and 0.5 * 0.5 is ScoreUnit \div 4.         *)

\* rag_service.py:486: scores are floats; the smallest weight is 0.5 * 0.5,
\* and a similarity s counts for 1.5 * s or 0.5 * s
ScoreUnit == 8

\* ACCOUNT_NAMES, rag_service.py:35-57
ACCOUNT_NAMES ==
    ("131" :> "Pha?i thu kha/ch ha-ng") @@
    ("1331" :> "Thue^/ GTGT ddu+o+.c kha^/u tru+-") @@
    ("1388" :> "Pha?i thu kha/c") @@
    ("13881" :> "Pha?i thu ta.m (Xua^/t kho ba/n ha-ng chu+a co/ Ho/a ddo+n pha?i thu)") @@
    ("1111" :> "Tie^-n ma(.t") @@
    ("1121" :> "Tie^-n gu+?i nga^n ha-ng") @@
    ("152" :> "Nguye^n va^.t lie^.u") @@
    ("153" :> "Co^ng cu. du.ng cu.") @@
    ("154" :> "Chi phi/ SXKD do+? dang") @@
    ("155" :> "Tha-nh pha^?m") @@
    ("1561" :> "Ha-ng ho/a") @@
    ("157" :> "Ha-ng gu+?i ddi ba/n") @@
    ("331" :> "Pha?i tra? ngu+o+-i ba/n") @@
    ("3388" :> "Pha?i tra? kha/c") @@
    ("33881" :> "Pha?i tra? ta.m (Nha^.p kho mua ha-ng chu+a co/ Ho/a ddo+n pha?i chi)") @@
    ("33311" :> "Thue^/ GTGT pha?i no^.p") @@
    ("5111" :> "Doanh thu ba/n ha-ng ho/a") @@
    ("5112" :> "Doanh thu ba/n tha-nh pha^?m") @@
    ("5113" :> "Doanh thu cung ca^/p di.ch vu.") @@
    ("5211" :> "Chie^/t kha^/u thu+o+ng ma.i") @@
    ("632" :> "Gia/ vo^/n ha-ng ba/n")

\* SYNONYMS, rag_service.py:100-132, in dict order
SYNONYMS ==
    <<[term |-> <<"xua^/t", "kho">>,
       synonyms |-> <<<<"xua^/t", "ha-ng">>, <<"giao", "ha-ng">>,
                      <<"ba/n", "ha-ng">>, <<"ship", "ha-ng">>,
                      <<"delivery">>>>],
      [term |-> <<"ba/n">>,
       synonyms |-> <<<<"ba/n", "ha-ng">>, <<"ba/n", "ra">>,
                      <<"tie^u", "thu.">>>>],
      [term |-> <<"giao">>,
       synonyms |-> <<<<"giao", "ha-ng">>, <<"giao", "cho", "kha/ch">>,
                      <<"ship">>>>],
      [term |-> <<"kha/ch", "ha-ng">>,
       synonyms |-> <<<<"kha/ch">>, <<"customer">>, <<"KH">>>>],
      [term |-> <<"nha^.p", "kho">>,
       synonyms |-> <<<<"nha^.p", "ha-ng">>, <<"nha^.n", "ha-ng">>,
                      <<"ha-ng", "ve^-">>, <<"receive">>>>],
      [term |-> <<"mua">>,
       synonyms |-> <<<<"mua", "ha-ng">>, <<"mua", "va-o">>, <<"purchase">>>>],
      [term |-> <<"nha-", "cung", "ca^/p">>,
       synonyms |-> <<<<"NCC">>, <<"supplier">>, <<"vendor">>,
                      <<"nha-", "cc">>>>],
      [term |-> <<"ho/a", "ddo+n">>,
       synonyms |-> <<<<"hoa/", "ddo+n">>, <<"HDD">>, <<"invoice">>,
                      <<"bill">>>>],
      [term |-> <<"pha?i", "thu">>,
       synonyms |-> <<<<"co^ng", "no+.", "thu">>, <<"AR">>,
                      <<"receivable">>>>],
      [term |-> <<"pha?i", "tra?">>,
       synonyms |-> <<<<"co^ng", "no+.", "tra?">>, <<"AP">>, <<"payable">>>>],
      [term |-> <<"pha?i", "chi">>,
       synonyms |-> <<<<"pha?i", "tra?">>, <<"co^ng", "no+.", "chi">>,
                      <<"AP">>>>],
      [term |-> <<"thu", "tie^-n">>,
       synonyms |-> <<<<"nha^.n", "tie^-n">>, <<"tie^-n", "ve^-">>,
                      <<"cash", "in">>, <<"receipt">>>>],
      [term |-> <<"chi", "tie^-n">>,
       synonyms |-> <<<<"tra?", "tie^-n">>, <<"thanh", "toa/n">>,
                      <<"cash", "out">>, <<"payment">>>>],
      [term |-> <<"tie^-n", "ma(.t">>,
       synonyms |-> <<<<"cash">>, <<"TM">>>>],
      [term |-> <<"chuye^?n", "khoa?n">>,
       synonyms |-> <<<<"CK">>, <<"bank", "transfer">>,
                      <<"tie^-n", "gu+?i">>>>],
      [term |-> <<"thue^/">>,
       synonyms |-> <<<<"VAT">>, <<"GTGT">>, <<"tax">>>>],
      [term |-> <<"thue^/", "dda^-u", "ra">>,
       synonyms |-> <<<<"VAT", "out">>, <<"output", "tax">>>>],
      [term |-> <<"thue^/", "dda^-u", "va-o">>,
       synonyms |-> <<<<"VAT", "in">>, <<"input", "tax">>>>],
      [term |-> <<"ha.ch", "toa/n">>,
       synonyms |-> <<<<"ddi.nh", "khoa?n">>, <<"ghi", "so^?">>,
                      <<"bu/t", "toa/n">>, <<"journal", "entry">>>>],
      [term |-> <<"ta-i", "khoa?n">>,
       synonyms |-> <<<<"TK">>, <<"account">>, <<"acc">>>>]>>

\* NEGATIVE_KEYWORDS, rag_service.py:138-156, in dict order
NEGATIVE_KEYWORDS ==
    <<[tx |-> "DO_SALE",
       keywords |-> <<<<"ho/a", "ddo+n">>, <<"hoa/", "ddo+n">>,
                      <<"invoice">>, <<"thu", "tie^-n">>,
                      <<"nha^.n", "tie^-n">>, <<"thanh", "toa/n">>>>],
      [tx |-> "SALES_INVOICE",
       keywords |-> <<<<"xua^/t", "kho">>, <<"giao", "ha-ng">>,
                      <<"thu", "tie^-n">>, <<"nha^.n", "tie^-n">>,
                      <<"tie^-n", "ve^-">>>>],
      [tx |-> "CASH_IN",
       keywords |-> <<<<"xua^/t", "kho">>, <<"ho/a", "ddo+n">>,
                      <<"hoa/", "ddo+n">>, <<"giao", "ha-ng">>>>],
      [tx |-> "GRN_PURCHASE",
       keywords |-> <<<<"ho/a", "ddo+n">>, <<"hoa/", "ddo+n">>,
                      <<"invoice">>, <<"chi", "tie^-n">>,
                      <<"tra?", "tie^-n">>, <<"thanh", "toa/n">>>>],
      [tx |-> "PURCHASE_INVOICE",
       keywords |-> <<<<"nha^.p", "kho">>, <<"ha-ng", "ve^-">>,
                      <<"chi", "tie^-n">>, <<"tra?", "tie^-n">>>>],
      [tx |-> "CASH_OUT",
       keywords |-> <<<<"nha^.p", "kho">>, <<"ho/a", "ddo+n">>,
                      <<"hoa/", "ddo+n">>, <<"ha-ng", "ve^-">>>>]>>

\* DISAMBIGUATION_RULES, rag_service.py:162-202; boost 5.0 in score units
DISAMBIGUATION_RULES ==
    <<[if_contains |-> <<<<"xua^/t", "kho">>, <<"giao", "ha-ng">>>>,
       and_not_contains |-> <<<<"ho/a", "ddo+n">>, <<"thu", "tie^-n">>>>,
       then |-> "DO_SALE", boost |-> 5 * ScoreUnit],
      [if_contains |-> <<<<"ho/a", "ddo+n">>, <<"pha?i", "thu">>>>,
       and_not_contains |-> <<<<"xua^/t", "kho">>, <<"thu", "tie^-n">>,
                              <<"nha^.p">>, <<"mua">>>>,
       then |-> "SALES_INVOICE", boost |-> 5 * ScoreUnit],
      [if_contains |-> <<<<"thu", "tie^-n">>, <<"kha/ch", "tra?">>,
                         <<"kha/ch", "thanh", "toa/n">>>>,
       and_not_contains |-> <<<<"xua^/t", "kho">>, <<"ho/a", "ddo+n">>>>,
       then |-> "CASH_IN", boost |-> 5 * ScoreUnit],
      [if_contains |-> <<<<"nha^.p", "kho">>, <<"ha-ng", "ve^-">>,
                         <<"nha^.n", "ha-ng">>>>,
       and_not_contains |-> <<<<"ho/a", "ddo+n">>, <<"chi", "tie^-n">>>>,
       then |-> "GRN_PURCHASE", boost |-> 5 * ScoreUnit],
      [if_contains |-> <<<<"ho/a", "ddo+n">>, <<"pha?i", "tra?">>,
                         <<"pha?i", "chi">>>>,
       and_not_contains |-> <<<<"nha^.p", "kho">>, <<"chi", "tie^-n">>,
                              <<"xua^/t">>, <<"ba/n">>>>,
       then |-> "PURCHASE_INVOICE", boost |-> 5 * ScoreUnit],
      [if_contains |-> <<<<"chi", "tie^-n">>, <<"tra?", "tie^-n">>,
                         <<"thanh", "toa/n", "ncc">>,
                         <<"thanh", "toa/n", "nha-", "cung", "ca^/p">>>>,
       and_not_contains |-> <<<<"nha^.p", "kho">>, <<"ho/a", "ddo+n">>>>,
       then |-> "CASH_OUT", boost |-> 5 * ScoreUnit]>>

\* CONCEPTS, rag_service.py:205-256
CONCEPTS ==
    [DO_SALE |->
        <<<<"xua^/t", "kho", "ba/n">>, <<"phie^/u", "xua^/t", "kho">>,
          <<"giao", "ha-ng", "cho", "kha/ch">>,
          <<"gia?m", "to^-n", "kho">>,
          <<"ke^/t", "chuye^?n", "gia/", "vo^/n">>,
          <<"phie^/u", "giao", "ha-ng">>,
          <<"xua^/t", "ha-ng", "ddi", "ba/n">>,
          <<"ha-ng", "xua^/t", "ba/n">>, <<"delivery", "order">>,
          <<"xua^/t", "kho">>, <<"xua^/t", "ha-ng">>, <<"giao", "ha-ng">>,
          <<"gia/", "vo^/n">>, <<"phie^/u", "xua^/t">>>>,
     SALES_INVOICE |->
        <<<<"ho/a", "ddo+n", "ba/n", "ha-ng">>,
          <<"ho/a", "ddo+n", "dda^-u", "ra">>,
          <<"ho/a", "ddo+n", "pha?i", "thu">>,
          <<"xua^/t", "ho/a", "ddo+n", "cho", "kha/ch">>,
          <<"la^.p", "ho/a", "ddo+n", "ba/n">>,
          <<"co^ng", "no+.", "pha?i", "thu">>,
          <<"thue^/", "dda^-u", "ra">>, <<"VAT", "dda^-u", "ra">>,
          <<"ho/a", "ddo+n", "GTGT", "ba/n", "ra">>, <<"AR", "invoice">>,
          <<"ghi", "no+.", "kha/ch", "ha-ng">>,
          <<"ho/a", "ddo+n", "ba/n">>, <<"xua^/t", "ho/a", "ddo+n">>,
          <<"la^.p", "ho/a", "ddo+n">>, <<"pha?i", "thu", "kha/ch">>>>,
     CASH_IN |->
        <<<<"thu", "tie^-n", "kha/ch", "ha-ng">>,
          <<"kha/ch", "ha-ng", "tra?", "tie^-n">>,
          <<"phie^/u", "thu", "tie^-n">>,
          <<"thu", "ho^-i", "co^ng", "no+.">>,
          <<"nha^.n", "thanh", "toa/n", "tu+-", "kha/ch">>,
          <<"thu", "no+.", "kha/ch">>, <<"kha/ch", "thanh", "toa/n">>,
          <<"cash", "receipt">>, <<"tie^-n", "ve^-", "tu+-", "kha/ch">>,
          <<"thu", "tie^-n">>, <<"phie^/u", "thu">>, <<"tie^-n", "ve^-">>,
          <<"kha/ch", "tra?">>>>,
     GRN_PURCHASE |->
        <<<<"nha^.p", "kho", "mua">>, <<"phie^/u", "nha^.p", "kho">>,
          <<"nha^.n", "ha-ng", "tu+-", "NCC">>,
          <<"ta(ng", "to^-n", "kho">>, <<"ha-ng", "ve^-", "kho">>,
          <<"nha^.p", "ha-ng", "mua">>, <<"ha-ng", "nha^.p", "kho">>,
          <<"goods", "receipt">>, <<"GRN">>, <<"nha^.p", "kho">>,
          <<"nha^.p", "ha-ng">>, <<"ha-ng", "ve^-">>,
          <<"phie^/u", "nha^.p">>, <<"nha^.n", "ha-ng">>>>,
     PURCHASE_INVOICE |->
        <<<<"ho/a", "ddo+n", "mua", "ha-ng">>,
          <<"ho/a", "ddo+n", "dda^-u", "va-o">>,
          <<"ho/a", "ddo+n", "pha?i", "chi">>,
          <<"nha^.n", "ho/a", "ddo+n", "tu+-", "NCC">>,
          <<"ho/a", "ddo+n", "nha-", "cung", "ca^/p">>,
          <<"co^ng", "no+.", "pha?i", "tra?">>,
          <<"thue^/", "dda^-u", "va-o">>, <<"VAT", "dda^-u", "va-o">>,
          <<"ho/a", "ddo+n", "GTGT", "mua", "va-o">>, <<"AP", "invoice">>,
          <<"ghi", "no+.", "nha-", "cung", "ca^/p">>,
          <<"ho/a", "ddo+n", "mua">>, <<"nha^.n", "ho/a", "ddo+n">>,
          <<"pha?i", "tra?", "NCC">>, <<"no+.", "NCC">>>>,
     CASH_OUT |->
        <<<<"chi", "tie^-n", "cho", "NCC">>,
          <<"tra?", "tie^-n", "nha-", "cung", "ca^/p">>,
          <<"phie^/u", "chi", "tie^-n">>,
          <<"thanh", "toa/n", "co^ng", "no+.", "NCC">>,
          <<"tra?", "no+.", "nha-", "cung", "ca^/p">>,
          <<"chi", "tra?", "NCC">>, <<"thanh", "toa/n", "cho", "NCC">>,
          <<"cash", "payment">>, <<"tie^-n", "ra", "cho", "NCC">>,
          <<"chi", "tie^-n">>, <<"phie^/u", "chi">>, <<"tra?", "tie^-n">>,
          <<"thanh", "toa/n", "NCC">>>>]

\* the domain groups of _add_concept_relations, rag_service.py:343-359
CONCEPT_DOMAINS ==
    <<<<<<"xua^/t", "kho">>, <<"ba/n", "ha-ng">>, <<"giao", "ha-ng">>,
        <<"doanh", "thu">>>>,
      <<<<"nha^.p", "kho">>, <<"mua", "ha-ng">>, <<"nha^.n", "ha-ng">>,
        <<"ha-ng", "ve^-">>>>,
      <<<<"co^ng", "no+.", "pha?i", "thu">>,
        <<"co^ng", "no+.", "pha?i", "tra?">>,
        <<"kha/ch", "ha-ng", "no+.">>, <<"no+.", "NCC">>>>,
      <<<<"thu", "tie^-n">>, <<"chi", "tie^-n">>, <<"tie^-n", "ve^-">>,
        <<"tie^-n", "ra">>>>>>

\* followup_indicators, rag_service.py:700-708
followup_indicators ==
    <<<<"co-n">>, <<"the^/", "co-n">>, <<"va^.y", "co-n">>,
      <<"co-n", "gi-">>, <<"co-n", "nu+~a">>, <<"the^/">>, <<"va^.y">>,
      <<"sao">>, <<"the^/", "na-o">>, <<"no/">>, <<"ca/i", "ddo/">>,
      <<"ca/i", "na-y">>, <<"nghie^.p", "vu.", "ddo/">>,
      <<"nghie^.p", "vu.", "na-y">>, <<"tie^/p">>, <<"tie^/p", "theo">>,
      <<"bu+o+/c", "tie^/p">>, <<"thue^/">>, <<"chie^/t", "kha^/u">>,
      <<"vi/", "du.">>, <<"cho", "vi/", "du.">>, <<"gia?i", "thi/ch">>,
      <<"gia?i", "thi/ch", "the^m">>, <<"chi", "tie^/t", "ho+n">>>>

\* document types as posting_engine.json declares them (rag_service.py:24,
\* 292-305 and 412-414 read these keys).  The file says of CONCEPTS that its
\* first entries repeat the keywords of the JSON (rag_service.py:204-207):
\* these are those entries
ReferenceDocuments ==
    <<[transaction_key |-> "DO_SALE",
       keywords |-> <<<<"xua^/t", "kho", "ba/n">>,
                      <<"phie^/u", "xua^/t", "kho">>,
                      <<"giao", "ha-ng", "cho", "kha/ch">>,
                      <<"gia?m", "to^-n", "kho">>,
                      <<"ke^/t", "chuye^?n", "gia/", "vo^/n">>,
                      <<"phie^/u", "giao", "ha-ng">>,
                      <<"xua^/t", "ha-ng", "ddi", "ba/n">>,
                      <<"ha-ng", "xua^/t", "ba/n">>,
                      <<"delivery", "order">>>>],
      [transaction_key |-> "SALES_INVOICE",
       keywords |-> <<<<"ho/a", "ddo+n", "ba/n", "ha-ng">>,
                      <<"ho/a", "ddo+n", "dda^-u", "ra">>,
                      <<"ho/a", "ddo+n", "pha?i", "thu">>,
                      <<"xua^/t", "ho/a", "ddo+n", "cho", "kha/ch">>,
                      <<"la^.p", "ho/a", "ddo+n", "ba/n">>,
                      <<"co^ng", "no+.", "pha?i", "thu">>,
                      <<"thue^/", "dda^-u", "ra">>,
                      <<"VAT", "dda^-u", "ra">>,
                      <<"ho/a", "ddo+n", "GTGT", "ba/n", "ra">>,
                      <<"AR", "invoice">>,
                      <<"ghi", "no+.", "kha/ch", "ha-ng">>>>],
      [transaction_key |-> "CASH_IN",
       keywords |-> <<<<"thu", "tie^-n", "kha/ch", "ha-ng">>,
                      <<"kha/ch", "ha-ng", "tra?", "tie^-n">>,
                      <<"phie^/u", "thu", "tie^-n">>,
                      <<"thu", "ho^-i", "co^ng", "no+.">>,
                      <<"nha^.n", "thanh", "toa/n", "tu+-", "kha/ch">>,
                      <<"thu", "no+.", "kha/ch">>,
                      <<"kha/ch", "thanh", "toa/n">>,
                      <<"cash", "receipt">>,
                      <<"tie^-n", "ve^-", "tu+-", "kha/ch">>>>],
      [transaction_key |-> "GRN_PURCHASE",
       keywords |-> <<<<"nha^.p", "kho", "mua">>,
                      <<"phie^/u", "nha^.p", "kho">>,
                      <<"nha^.n", "ha-ng", "tu+-", "NCC">>,
                      <<"ta(ng", "to^-n", "kho">>,
                      <<"ha-ng", "ve^-", "kho">>,
                      <<"nha^.p", "ha-ng", "mua">>,
                      <<"ha-ng", "nha^.p", "kho">>, <<"goods", "receipt">>,
                      <<"GRN">>>>],
      [transaction_key |-> "PURCHASE_INVOICE",
       keywords |-> <<<<"ho/a", "ddo+n", "mua", "ha-ng">>,
                      <<"ho/a", "ddo+n", "dda^-u", "va-o">>,
                      <<"ho/a", "ddo+n", "pha?i", "chi">>,
                      <<"nha^.n", "ho/a", "ddo+n", "tu+-", "NCC">>,
                      <<"ho/a", "ddo+n", "nha-", "cung", "ca^/p">>,
                      <<"co^ng", "no+.", "pha?i", "tra?">>,
                      <<"thue^/", "dda^-u", "va-o">>,
                      <<"VAT", "dda^-u", "va-o">>,
                      <<"ho/a", "ddo+n", "GTGT", "mua", "va-o">>,
                      <<"AP", "invoice">>,
                      <<"ghi", "no+.", "nha-", "cung", "ca^/p">>>>],
      [transaction_key |-> "CASH_OUT",
       keywords |-> <<<<"chi", "tie^-n", "cho", "NCC">>,
                      <<"tra?", "tie^-n", "nha-", "cung", "ca^/p">>,
                      <<"phie^/u", "chi", "tie^-n">>,
                      <<"thanh", "toa/n", "co^ng", "no+.", "NCC">>,
                      <<"tra?", "no+.", "nha-", "cung", "ca^/p">>,
                      <<"chi", "tra?", "NCC">>,
                      <<"thanh", "toa/n", "cho", "NCC">>,
                      <<"cash", "payment">>,
                      <<"tie^-n", "ra", "cho", "NCC">>>>]>>

-----------------------------------------------------------------------------
(* Text.  str.lower(), len(), " ".join() and the substring test `a in b`.   *)

\* str.lower() on the words that have upper-case letters
LOWER ==
    ("AP" :> "ap") @@ ("AR" :> "ar") @@ ("CK" :> "ck") @@ ("GRN" :> "grn") @@
    ("GTGT" :> "gtgt") @@ ("HDD" :> "hdd") @@ ("KH" :> "kh") @@
    ("NCC" :> "ncc") @@ ("TK" :> "tk") @@ ("TM" :> "tm") @@ ("VAT" :> "vat")

\* the characters of each word, one string a character
SPELLING ==
    ("131" :> <<"1", "3", "1">>) @@ ("5" :> <<"5">>) @@
    ("AP" :> <<"A", "P">>) @@ ("AR" :> <<"A", "R">>) @@
    ("CK" :> <<"C", "K">>) @@ ("GRN" :> <<"G", "R", "N">>) @@
    ("GTGT" :> <<"G", "T", "G", "T">>) @@ ("HDD" :> <<"H", "DD">>) @@
    ("KH" :> <<"K", "H">>) @@ ("NCC" :> <<"N", "C", "C">>) @@
    ("TK" :> <<"T", "K">>) @@ ("TM" :> <<"T", "M">>) @@
    ("VAT" :> <<"V", "A", "T">>) @@ ("acc" :> <<"a", "c", "c">>) @@
    ("account" :> <<"a", "c", "c", "o", "u", "n", "t">>) @@
    ("ap" :> <<"a", "p">>) @@ ("ar" :> <<"a", "r">>) @@
    ("ba/n" :> <<"b", "a/", "n">>) @@ ("bank" :> <<"b", "a", "n", "k">>) @@
    ("bill" :> <<"b", "i", "l", "l">>) @@
    ("bu+o+/c" :> <<"b", "u+", "o+/", "c">>) @@
    ("bu/t" :> <<"b", "u/", "t">>) @@ ("ca/i" :> <<"c", "a/", "i">>) @@
    ("ca^/p" :> <<"c", "a^/", "p">>) @@ ("cash" :> <<"c", "a", "s", "h">>) @@
    ("cc" :> <<"c", "c">>) @@ ("cha-o" :> <<"c", "h", "a-", "o">>) @@
    ("chi" :> <<"c", "h", "i">>) @@
    ("chie^/t" :> <<"c", "h", "i", "e^/", "t">>) @@
    ("cho" :> <<"c", "h", "o">>) @@
    ("chuye^?n" :> <<"c", "h", "u", "y", "e^?", "n">>) @@
    ("ck" :> <<"c", "k">>) @@ ("co-n" :> <<"c", "o-", "n">>) @@
    ("co^ng" :> <<"c", "o^", "n", "g">>) @@
    ("cung" :> <<"c", "u", "n", "g">>) @@
    ("customer" :> <<"c", "u", "s", "t", "o", "m", "e", "r">>) @@
    ("dda^-u" :> <<"dd", "a^-", "u">>) @@ ("ddi" :> <<"dd", "i">>) @@
    ("ddi.nh" :> <<"dd", "i.", "n", "h">>) @@
    ("ddo+n" :> <<"dd", "o+", "n">>) @@ ("ddo/" :> <<"dd", "o/">>) @@
    ("delivery" :> <<"d", "e", "l", "i", "v", "e", "r", "y">>) @@
    ("doanh" :> <<"d", "o", "a", "n", "h">>) @@ ("du." :> <<"d", "u.">>) @@
    ("entry" :> <<"e", "n", "t", "r", "y">>) @@
    ("ghi" :> <<"g", "h", "i">>) @@ ("gi-" :> <<"g", "i-">>) @@
    ("gia/" :> <<"g", "i", "a/">>) @@ ("gia?i" :> <<"g", "i", "a?", "i">>) @@
    ("gia?m" :> <<"g", "i", "a?", "m">>) @@
    ("giao" :> <<"g", "i", "a", "o">>) @@
    ("giu/p" :> <<"g", "i", "u/", "p">>) @@
    ("goods" :> <<"g", "o", "o", "d", "s">>) @@
    ("grn" :> <<"g", "r", "n">>) @@ ("gtgt" :> <<"g", "t", "g", "t">>) @@
    ("gu+?i" :> <<"g", "u+?", "i">>) @@
    ("ha-ng" :> <<"h", "a-", "n", "g">>) @@
    ("ha.ch" :> <<"h", "a.", "c", "h">>) @@ ("hdd" :> <<"h", "dd">>) @@
    ("ho+n" :> <<"h", "o+", "n">>) @@ ("ho/a" :> <<"h", "o/", "a">>) @@
    ("ho^-i" :> <<"h", "o^-", "i">>) @@ ("hoa/" :> <<"h", "o", "a/">>) @@
    ("in" :> <<"i", "n">>) @@ ("input" :> <<"i", "n", "p", "u", "t">>) @@
    ("invoice" :> <<"i", "n", "v", "o", "i", "c", "e">>) @@
    ("journal" :> <<"j", "o", "u", "r", "n", "a", "l">>) @@
    ("ke^/t" :> <<"k", "e^/", "t">>) @@ ("kh" :> <<"k", "h">>) @@
    ("kha/ch" :> <<"k", "h", "a/", "c", "h">>) @@
    ("kha^/u" :> <<"k", "h", "a^/", "u">>) @@ ("kho" :> <<"k", "h", "o">>) @@
    ("khoa?n" :> <<"k", "h", "o", "a?", "n">>) @@
    ("la^.p" :> <<"l", "a^.", "p">>) @@ ("ma(.t" :> <<"m", "a(.", "t">>) @@
    ("mua" :> <<"m", "u", "a">>) @@ ("na-o" :> <<"n", "a-", "o">>) @@
    ("na-y" :> <<"n", "a-", "y">>) @@ ("ncc" :> <<"n", "c", "c">>) @@
    ("nghie^.p" :> <<"n", "g", "h", "i", "e^.", "p">>) @@
    ("nha-" :> <<"n", "h", "a-">>) @@
    ("nha^.n" :> <<"n", "h", "a^.", "n">>) @@
    ("nha^.p" :> <<"n", "h", "a^.", "p">>) @@ ("no+." :> <<"n", "o+.">>) @@
    ("no/" :> <<"n", "o/">>) @@ ("nu+~a" :> <<"n", "u+~", "a">>) @@
    ("order" :> <<"o", "r", "d", "e", "r">>) @@
    ("out" :> <<"o", "u", "t">>) @@
    ("output" :> <<"o", "u", "t", "p", "u", "t">>) @@
    ("payable" :> <<"p", "a", "y", "a", "b", "l", "e">>) @@
    ("payment" :> <<"p", "a", "y", "m", "e", "n", "t">>) @@
    ("pha?i" :> <<"p", "h", "a?", "i">>) @@
    ("phie^/u" :> <<"p", "h", "i", "e^/", "u">>) @@
    ("purchase" :> <<"p", "u", "r", "c", "h", "a", "s", "e">>) @@
    ("ra" :> <<"r", "a">>) @@
    ("receipt" :> <<"r", "e", "c", "e", "i", "p", "t">>) @@
    ("receivable" :> <<"r", "e", "c", "e", "i", "v", "a", "b", "l", "e">>) @@
    ("receive" :> <<"r", "e", "c", "e", "i", "v", "e">>) @@
    ("sao" :> <<"s", "a", "o">>) @@ ("ship" :> <<"s", "h", "i", "p">>) @@
    ("so^?" :> <<"s", "o^?">>) @@
    ("supplier" :> <<"s", "u", "p", "p", "l", "i", "e", "r">>) @@
    ("ta(ng" :> <<"t", "a(", "n", "g">>) @@ ("ta-i" :> <<"t", "a-", "i">>) @@
    ("tax" :> <<"t", "a", "x">>) @@
    ("thanh" :> <<"t", "h", "a", "n", "h">>) @@
    ("the^/" :> <<"t", "h", "e^/">>) @@
    ("the^m" :> <<"t", "h", "e^", "m">>) @@
    ("theo" :> <<"t", "h", "e", "o">>) @@ ("thi-" :> <<"t", "h", "i-">>) @@
    ("thi/ch" :> <<"t", "h", "i/", "c", "h">>) @@
    ("thu" :> <<"t", "h", "u">>) @@ ("thu." :> <<"t", "h", "u.">>) @@
    ("thue^/" :> <<"t", "h", "u", "e^/">>) @@
    ("tie^-n" :> <<"t", "i", "e^-", "n">>) @@
    ("tie^/p" :> <<"t", "i", "e^/", "p">>) @@
    ("tie^/t" :> <<"t", "i", "e^/", "t">>) @@
    ("tie^u" :> <<"t", "i", "e^", "u">>) @@ ("tk" :> <<"t", "k">>) @@
    ("tm" :> <<"t", "m">>) @@ ("to^-n" :> <<"t", "o^-", "n">>) @@
    ("to^i" :> <<"t", "o^", "i">>) @@ ("toa/n" :> <<"t", "o", "a/", "n">>) @@
    ("tra?" :> <<"t", "r", "a?">>) @@
    ("transfer" :> <<"t", "r", "a", "n", "s", "f", "e", "r">>) @@
    ("trie^.u" :> <<"t", "r", "i", "e^.", "u">>) @@
    ("tu+-" :> <<"t", "u+-">>) @@ ("va-o" :> <<"v", "a-", "o">>) @@
    ("va^.y" :> <<"v", "a^.", "y">>) @@ ("vat" :> <<"v", "a", "t">>) @@
    ("ve^-" :> <<"v", "e^-">>) @@
    ("vendor" :> <<"v", "e", "n", "d", "o", "r">>) @@
    ("vi/" :> <<"v", "i/">>) @@ ("vo^/n" :> <<"v", "o^/", "n">>) @@
    ("vu." :> <<"v", "u.">>) @@ ("xin" :> <<"x", "i", "n">>) @@
    ("xua^/t" :> <<"x", "u", "a^/", "t">>)

\* a for loop over a list: the state after the body, step, has run on each
\* item in turn.  The list is cut in two so that the evaluation does not
\* nest once for each item; the first half is computed before the second
\* half is entered.
RECURSIVE fold(_, _, _)
fold(step(_, _), acc, items) ==
    IF items = <<>> THEN acc
    ELSE IF Len(items) = 1 THEN step(acc, items[1])
    ELSE LET m == Len(items) \div 2
             left == fold(step, acc, SubSeq(items, 1, m))
         IN  IF left = left
             THEN fold(step, left, SubSeq(items, m + 1, Len(items)))
             ELSE left

\* the elements of a list
Range(s) == {s[i] : i \in 1..Len(s)}

\* the lists of a list of lists, one after the other
Flatten(lists) == fold(LAMBDA acc, list : acc \o list, <<>>, lists)

\* text.lower()
lower(text) == [i \in 1..Len(text) |-> Get(LOWER, text[i], text[i])]

\* [text.lower() for text in texts]
lower_all(texts) == [i \in 1..Len(texts) |-> lower(texts[i])]

\* the characters of a text: those of its words, one space between two words
chars(text) ==
    fold(LAMBDA acc, word :
            (IF acc = <<>> THEN <<>> ELSE Append(acc, " ")) \o SPELLING[word],
         <<>>, text)

\* len(text)
len(text) == Len(chars(text))

\* a in b, on the characters of a and b
in_chars(a, b) ==
    \E i \in 0..(Len(b) - Len(a)) : SubSeq(b, i + 1, i + Len(a)) = a

\* a in b, for two texts
text_in(a, b) == in_chars(chars(a), chars(b))

\* any(kw in text for kw in keywords)
any_in(keywords, text) ==
    \E i \in 1..Len(keywords) : text_in(keywords[i], text)

\* " ".join(texts)
join(texts) == Flatten(texts)

-----------------------------------------------------------------------------
(* MiniRAGGraph.  The nx.DiGraph is its nodes with their attributes and,   *)
(* for each node, the edges that leave it and the edges that reach it, in  *)
(* the order they were first added.  A node id f"KW:{kw}" is the pair of   *)
(* its prefix and its text.  An index (keyword_to_tx, ...) is a dict: its  *)
(* keys in insertion order and the value of each key.                      *)

node_id(prefix, text) == <<prefix, text>>

DiGraph == [nodes |-> EmptyDict, succ |-> EmptyDict, pred |-> EmptyDict]

has_node(g, n) == n \in DOMAIN g.nodes

\* add_node: a new node has no edges; on a known node the attributes are
\* updated
add_node(g, n, attrs) ==
    IF has_node(g, n) THEN [g EXCEPT !.nodes[n] = attrs @@ @]
    ELSE [nodes |-> g.nodes @@ (n :> attrs),
          succ  |-> g.succ @@ (n :> <<>>),
          pred  |-> g.pred @@ (n :> <<>>)]

\* the edges of adj with the data of the edge to or from n updated
updated_edges(adj, n, data) ==
    [i \in 1..Len(adj) |->
        IF adj[i].node = n THEN [node |-> n, data |-> data @@ adj[i].data]
        ELSE adj[i]]

\* add_edge: the end nodes are created when they are missing; an edge that
\* exists keeps its place and has its data updated
add_edge(g, u, v, data) ==
    LET h == add_node(add_node(g, u, EmptyDict), v, EmptyDict)
    IN  IF \E i \in 1..Len(h.succ[u]) : h.succ[u][i].node = v
        THEN [h EXCEPT !.succ[u] = updated_edges(@, v, data),
                       !.pred[v] = updated_edges(@, u, data)]
        ELSE [h EXCEPT !.succ[u] = Append(@, [node |-> v, data |-> data]),
                       !.pred[v] = Append(@, [node |-> u, data |-> data])]

\* a defaultdict with nothing in it
defaultdict == [keys |-> <<>>, val |-> EmptyDict]

\* index[key].add(tx) on a defaultdict(set); the set is kept as the list of
\* its elements in the order they were added
set_add(index, key, tx) ==
    IF key \notin DOMAIN index.val
    THEN [keys |-> Append(index.keys, key), val |-> index.val @@ (key :> <<tx>>)]
    ELSE IF tx \in Range(index.val[key]) THEN index
    ELSE [index EXCEPT !.val[key] = Append(@, tx)]

\* index[key].append(item) on a defaultdict(list)
list_append(index, key, item) ==
    IF key \notin DOMAIN index.val
    THEN [keys |-> Append(index.keys, key), val |-> index.val @@ (key :> <<item>>)]
    ELSE [index EXCEPT !.val[key] = Append(@, item)]

\* MiniRAGGraph.__init__ before _build_graph
EmptyMiniRAGGraph ==
    [graph |-> DiGraph, keyword_to_tx |-> defaultdict,
     concept_to_tx |-> defaultdict, account_to_tx |-> defaultdict]

\* _build_graph, step 2: one keyword of the document type tx
add_keyword(G, tx, kw) ==
    LET kw_node == node_id("KW", kw)
        g == IF has_node(G.graph, kw_node) THEN G.graph
             ELSE add_node(G.graph, kw_node,
                           [node_type |-> "KEYWORD", text |-> kw])
    IN  [G EXCEPT
           !.graph = add_edge(g, node_id("TX", <<tx>>), kw_node,
                              [edge_type |-> "HAS_KEYWORD"]),
           !.keyword_to_tx = set_add(@, lower(kw), tx)]

\* _build_graph, step 3: one concept of the document type tx
add_concept(G, tx, concept) ==
    LET concept_node == node_id("CONCEPT", concept)
        g == IF has_node(G.graph, concept_node) THEN G.graph
             ELSE add_node(G.graph, concept_node,
                           [node_type |-> "CONCEPT", text |-> concept])
    IN  [G EXCEPT
           !.graph = add_edge(g, node_id("TX", <<tx>>), concept_node,
                              [edge_type |-> "HAS_CONCEPT"]),
           !.concept_to_tx = set_add(@, lower(concept), tx)]

\* _build_graph, steps 1 to 3: one document type
add_transaction(G, doc) ==
    LET tx == doc.transaction_key
        g == add_node(G.graph, node_id("TX", <<tx>>),
                      [node_type   |-> "TRANSACTION",
                       name        |-> transaction_name(tx),
                       description |-> Get(doc, "description", ""),
                       module_id   |-> Get(doc, "module_id", 0)])
        keywords == fold(LAMBDA H, kw : add_keyword(H, tx, kw),
                         [G EXCEPT !.graph = g], Get(doc, "keywords", <<>>))
    IN  fold(LAMBDA H, concept : add_concept(H, tx, concept),
             keywords, Get(CONCEPTS, tx, <<>>))

\* the keys of a dict in some order: the order of POSTING_RULES is the
\* order of posting_engine.json, which the engine reads nowhere else
dict_keys(d) ==
    CHOOSE s \in [1..Cardinality(DOMAIN d) -> DOMAIN d] :
        \A i, j \in DOMAIN s : s[i] = s[j] => i = j

\* _build_graph, step 4: one rule of the transaction tx
add_account(G, tx, rule) ==
    LET acc == Get(rule, "fixed_account_code", "")
        acc_node == node_id("ACC", <<acc>>)
        g == IF has_node(G.graph, acc_node) THEN G.graph
             ELSE add_node(G.graph, acc_node,
                           [node_type |-> "ACCOUNT", code |-> acc,
                            name |-> Get(ACCOUNT_NAMES, acc, acc)])
        edge_type == IF rule.side = "DEBIT" THEN "DEBIT" ELSE "CREDIT"
    IN  IF account_source_type(rule) = "FIXED" /\ acc # ""
        THEN [G EXCEPT
                !.graph = add_edge(g, node_id("TX", <<tx>>), acc_node,
                                   [edge_type   |-> edge_type,
                                    role        |-> rule.role_key,
                                    description |->
                                        Get(rule, "description", "")]),
                !.account_to_tx = list_append(@, acc, <<tx, rule.side>>)]
        ELSE G

\* the pairs (c1, c2) of _connect_concepts, in the order of its two loops
concept_pairs(concepts) ==
    Flatten([i \in 1..Len(concepts) |->
                [j \in 1..(Len(concepts) - i) |->
                    <<concepts[i], concepts[i + j]>>]])

\* _connect_concepts: one pair
connect_pair(g, pair) ==
    LET n1 == node_id("CONCEPT", pair[1])
        n2 == node_id("CONCEPT", pair[2])
        related == [edge_type |-> "RELATED", weight |-> ScoreUnit \div 2]
    IN  IF has_node(g, n1) /\ has_node(g, n2)
        THEN add_edge(add_edge(g, n1, n2, related), n2, n1, related)
        ELSE g

_connect_concepts(g, concepts) ==
    fold(connect_pair, g, concept_pairs(concepts))

\* _add_concept_relations
_add_concept_relations(g) == fold(_connect_concepts, g, CONCEPT_DOMAINS)

\* _build_graph
_build_graph(docs, rules_of) ==
    LET transactions == fold(add_transaction, EmptyMiniRAGGraph, docs)
        accounts ==
            fold(LAMBDA G, tx :
                    fold(LAMBDA H, rule : add_account(H, tx, rule), G,
                         rules_of[tx]),
                 transactions, dict_keys(rules_of))
    IN  [accounts EXCEPT !.graph = _add_concept_relations(@)]

\* the order in which a set of strings is iterated depends on the hashes of
\* the strings, which change from one process to the next: the process
\* iterates every set either in the order of insertion or in the reverse
HashOrders == {"insertion", "reverse"}

Reverse(s) == [i \in 1..Len(s) |-> s[Len(s) + 1 - i]]

iteration_order(index, hash_order) ==
    IF hash_order = "insertion" THEN index
    ELSE [index EXCEPT !.val = [k \in DOMAIN @ |-> Reverse(@[k])]]

\* MiniRAGGraph(), rag_service.py:636
MiniRAGGraph(docs, rules_of, hash_order) ==
    LET G == _build_graph(docs, rules_of)
    IN  [G EXCEPT !.keyword_to_tx = iteration_order(@, hash_order),
                  !.concept_to_tx = iteration_order(@, hash_order)]

\* get_neighbors(node_id, edge_type)
get_neighbors(g, n, edge_type) ==
    IF ~ has_node(g, n) THEN <<>>
    ELSE SelectSeq(g.succ[n], LAMBDA e : Get(e.data, "edge_type", "None") = edge_type)
-----------------------------------------------------------------------------
(* MiniRAGRetriever.                                                        *)

\* expand_query: what one entry of SYNONYMS appends to expanded_terms
expand_term(expanded_terms, e, query_lower) ==
    expanded_terms
        \o (IF any_in(lower_all(e.synonyms), query_lower)
            THEN <<e.term>> ELSE <<>>)
        \o (IF text_in(e.term, query_lower) THEN e.synonyms ELSE <<>>)

expand_query(query) ==
    join(fold(LAMBDA terms, e : expand_term(terms, e, lower(query)),
              <<lower(query)>>, SYNONYMS))

\* scores[tx] += x, on a defaultdict(float)
plus(scores, tx, x) ==
    IF tx \in DOMAIN scores.val THEN [scores EXCEPT !.val[tx] = @ + x]
    ELSE [keys |-> Append(scores.keys, tx), val |-> scores.val @@ (tx :> x)]

\* the local variables of retrieve, as they are before step 1
retrieve_locals ==
    [scores              |-> defaultdict,
     matched_keywords    |-> defaultdict,
     matched_concepts    |-> defaultdict,
     expanded_query      |-> <<>>,
     negative_penalties  |-> EmptyDict,
     disambiguation_rule |-> "None",
     graph_traversal     |-> {}]

\* scores[tx] += weight; matched[tx].append(label), where matched is
\* matched_keywords or matched_concepts
credit(st, matched, tx, weight, label) ==
    [st EXCEPT !.scores = plus(@, tx, weight),
               ![matched] = list_append(@, tx, label)]

\* for kw, txs in index.items(): if kw in text: for tx in txs: ...
match_index(st, index, text, weight, matched, expanded) ==
    fold(LAMBDA s, kw :
            IF text_in(kw, text)
            THEN fold(LAMBDA t, tx :
                         credit(t, matched, tx, weight,
                                IF expanded THEN Append(kw, "(expanded)")
                                ELSE kw),
                      s, index.val[kw])
            ELSE s,
         st, index.keys)

\* keyword matching that credits a keyword with the weight of a concept
keyword_matching_as_concept(G, query_lower, st) ==
    match_index(st, G.keyword_to_tx, query_lower, 2 * ScoreUnit,
                "matched_keywords", FALSE)

\* step 1: the keywords of the index that the query contains
keyword_matching(G, query_lower, st) ==
    match_index(st, G.keyword_to_tx, query_lower, 3 * ScoreUnit,
                "matched_keywords", FALSE)

\* step 2: the concepts of the index that the query contains
concept_matching(G, query_lower, st) ==
    match_index(st, G.concept_to_tx, query_lower, 2 * ScoreUnit,
                "matched_concepts", FALSE)

\* step 2.5, its body: the keywords that the expanded query contains
match_expanded(G, expanded_query, st) ==
    match_index([st EXCEPT !.expanded_query = expanded_query],
                G.keyword_to_tx, expanded_query, 2 * ScoreUnit,
                "matched_keywords", TRUE)

\* an expansion that runs whether or not the question matched directly
query_expansion_always(G, query, st) ==
    match_expanded(G, expand_query(query), st)

\* step 2.5: if not matched_keywords and not matched_concepts
query_expansion(G, query, st) ==
    IF st.matched_keywords.keys = <<>> /\ st.matched_concepts.keys = <<>>
    THEN match_expanded(G, expand_query(query), st)
    ELSE st

\* the entry of NEGATIVE_KEYWORDS for tx
negative_keywords(tx) ==
    NEGATIVE_KEYWORDS[CHOOSE i \in 1..Len(NEGATIVE_KEYWORDS) :
                         NEGATIVE_KEYWORDS[i].tx = tx].keywords

\* the penalty of tx: 2.0 for each of its negative keywords in the query
penalty_of(tx, query_lower) ==
    2 * ScoreUnit *
        Cardinality({i \in 1..Len(negative_keywords(tx)) :
                        text_in(negative_keywords(tx)[i], query_lower)})

\* penalties has a key for each transaction with a negative keyword in the
\* query
penalised(penalty) ==
    [tx \in {t \in DOMAIN penalty : penalty[t] > 0} |-> penalty[tx]]

\* for tx, penalty in penalties.items(): if tx in scores: ...
subtract(st, penalties) ==
    [st EXCEPT !.scores.val =
                   [tx \in DOMAIN @ |-> @[tx] - Get(penalties, tx, 0)],
               !.negative_penalties = penalties]

\* step 3
apply_negative_penalty(query_lower, st) ==
    subtract(st, penalised([tx \in {NEGATIVE_KEYWORDS[i].tx :
                                       i \in 1..Len(NEGATIVE_KEYWORDS)} |->
                               penalty_of(tx, query_lower)]))

rule_matches(rule, query_lower) ==
    /\ any_in(rule.if_contains, query_lower)
    /\ ~ any_in(rule.and_not_contains, query_lower)

\* scores[tx] += rule["boost"]; matched_rule = rule
apply_first_rule(st, rule) ==
    [st EXCEPT !.scores = plus(@, rule.then, rule.boost),
               !.disambiguation_rule = rule.then]

\* the first rule that matches is applied, and the loop left
apply_first(st, matching) ==
    IF matching = {} THEN st
    ELSE apply_first_rule(
             st, DISAMBIGUATION_RULES[CHOOSE i \in matching :
                                         \A j \in matching : i <= j])

\* a disambiguation that applies every rule that matches, in declaration
\* order
apply_disambiguation_all(query_lower, st) ==
    fold(LAMBDA s, rule :
            IF rule_matches(rule, query_lower) THEN apply_first_rule(s, rule)
            ELSE s,
         st, DISAMBIGUATION_RULES)

\* step 4
apply_disambiguation(query_lower, st) ==
    apply_first(st, {i \in 1..Len(DISAMBIGUATION_RULES) :
                        rule_matches(DISAMBIGUATION_RULES[i], query_lower)})

\* for back_edge in in_edges(related): a transaction that has the concept
\* and is not tx gains amount
credit_source(scores, tx, back_edge, amount) ==
    LET source == back_edge.node
    IN  IF /\ source[1] = "TX"
           /\ Get(back_edge.data, "edge_type", "None") = "HAS_CONCEPT"
           /\ source[2][1] # tx
        THEN plus(scores, source[2][1], amount)
        ELSE scores

\* for related, rel_data in RELATED neighbours: if related not in traversed
visit_related(g, st, tx, edge) ==
    IF edge.node \in st.graph_traversal THEN st
    ELSE [st EXCEPT
            !.scores = fold(LAMBDA scores, back_edge :
                               credit_source(
                                   scores, tx, back_edge,
                                   Get(edge.data, "weight", ScoreUnit \div 2)
                                       \div 2),
                            @, g.pred[edge.node]),
            !.graph_traversal = @ \cup {edge.node}]

\* the RELATED edges that leave the concepts of tx, concept after concept
related_of(G, tx) ==
    LET concepts == get_neighbors(G.graph, node_id("TX", <<tx>>),
                                 "HAS_CONCEPT")
    IN  Flatten([i \in 1..Len(concepts) |->
                    get_neighbors(G.graph, concepts[i].node, "RELATED")])

\* step 5: for tx in list(scores.keys()): if scores[tx] > 0: ...
graph_traversal(G, st) ==
    fold(LAMBDA s, tx :
            IF s.scores.val[tx] > 0
            THEN fold(LAMBDA t, edge : visit_related(G.graph, t, tx, edge),
                      s, related_of(G, tx))
            ELSE s,
         st, st.scores.keys)

\* rag_service.py:563: a similarity is a float; it is counted in units of
\* 1/SimilarityUnit
SimilarityUnit == 4

\* float(np.dot(query_embedding, tx_emb))
dot(embed_model, query, tx) ==
    Get(Get(embed_model.dot, query, EmptyDict), tx, 0)

\* sim * 1.5 for a transaction no keyword or concept matched, sim * 0.5
\* for the others
weighted(sim, unmatched) ==
    IF unmatched THEN (3 * sim * ScoreUnit) \div (2 * SimilarityUnit)
    ELSE (sim * ScoreUnit) \div (2 * SimilarityUnit)

\* step 6
embedding_similarity(self, query, st) ==
    [st EXCEPT !.scores =
        fold(LAMBDA scores, tx :
                plus(scores, tx,
                     weighted(dot(self.embed_model, query, tx),
                              /\ tx \notin DOMAIN st.matched_keywords.val
                              /\ tx \notin DOMAIN st.matched_concepts.val)),
             @, self.tx_embeddings)]

\* max(keys, key=...): the first key whose value no other value exceeds
first_max(keys, value(_)) ==
    keys[CHOOSE i \in 1..Len(keys) :
            /\ \A j \in 1..Len(keys) : value(keys[j]) <= value(keys[i])
            /\ \A j \in 1..(i - 1) : value(keys[j]) < value(keys[i])]

\* step 7, were best_tx the first key of scores: the first transaction
\* that was given a score
first_scored(self, query, st) ==
    IF st.scores.keys = <<>> THEN self.tx_embeddings[1]
    ELSE st.scores.keys[1]

\* step 7: best_tx
best_transaction(self, query, st) ==
    IF st.scores.keys = <<>>
    THEN first_max(self.tx_embeddings,
                   LAMBDA tx : dot(self.embed_model, query, tx))
    ELSE first_max(st.scores.keys, LAMBDA tx : st.scores.val[tx])

\* step 7, were the method the match that found the transaction, whether a
\* rule was applied or not
method_by_match(st, best_tx) ==
    IF st.scores.keys = <<>> THEN "embedding_only"
    ELSE IF Get(st.matched_keywords.val, best_tx, <<>>) # <<>> THEN "keyword"
    ELSE IF Get(st.matched_concepts.val, best_tx, <<>>) # <<>> THEN "concept"
    ELSE IF st.disambiguation_rule # "None" THEN "disambiguation"
    ELSE "graph_traversal"

\* step 7: method
method_of(st, best_tx) ==
    IF st.scores.keys = <<>> THEN "embedding_only"
    ELSE IF st.disambiguation_rule # "None" THEN "disambiguation"
    ELSE IF Get(st.matched_keywords.val, best_tx, <<>>) # <<>> THEN "keyword"
    ELSE IF Get(st.matched_concepts.val, best_tx, <<>>) # <<>> THEN "concept"
    ELSE "graph_traversal"

\* the dictionary retrieve returns
result_of(self, query, st, best_tx) ==
    [transaction      |-> best_tx,
     score            |-> Get(st.scores.val, best_tx, 0),
     method           |-> method_of(st, best_tx),
     matched_keywords |-> Get(st.matched_keywords.val, best_tx, <<>>),
     matched_concepts |-> Get(st.matched_concepts.val, best_tx, <<>>),
     all_scores       |-> st.scores.val,
     debug            |->
        [original_query      |-> query,
         expanded_query      |-> st.expanded_query,
         keyword_matches     |-> st.matched_keywords.val,
         concept_matches     |-> st.matched_concepts.val,
         negative_penalties  |-> st.negative_penalties,
         disambiguation_rule |-> st.disambiguation_rule,
         graph_traversal     |-> st.graph_traversal,
         embedding_scores    |->
            [tx \in Range(self.tx_embeddings) |->
                dot(self.embed_model, query, tx)]]]

\* step 7 and the return: max() of no key at all raises ValueError
choose_best(self, query, st) ==
    IF st.scores.keys = <<>> /\ self.tx_embeddings = <<>>
    THEN Raised("ValueError")
    ELSE Returned(result_of(self, query, st,
                            best_transaction(self, query, st)))

\* steps 1 to 5, which read the graph and the tables only
graph_scores(G, query) ==
    graph_traversal(G,
      apply_disambiguation(lower(query),
        apply_negative_penalty(lower(query),
          query_expansion(G, query,
            concept_matching(G, lower(query),
              keyword_matching(G, lower(query), retrieve_locals))))))

\* MiniRAGRetriever.retrieve(query); embed_model.encode raises on the
\* questions the model is unavailable for
retrieve(self, query) ==
    IF query \in self.embed_model.unavailable THEN Raised("Exception")
    ELSE choose_best(self, query,
                     embedding_similarity(self, query,
                                          graph_scores(self.graph, query)))

\* MiniRAGRetriever(graph): one embedding for each document type
MiniRAGRetriever(graph, embed_model, docs) ==
    [graph         |-> graph,
     embed_model   |-> embed_model,
     tx_embeddings |-> [i \in 1..Len(docs) |-> docs[i].transaction_key]]

\* an embedding model that finds every question orthogonal to every
\* document type.  A model is what encode and the dot products of step 6
\* give: it answers the same on the same text, and encode raises on the
\* questions of unavailable.
NoSimilarity == [unavailable |-> {}, dot |-> EmptyDict]

-----------------------------------------------------------------------------
(* MiniRAGRetriever of rag_posting_engine.py: the language model is asked  *)
(* first, and _fallback_retrieve scores the keywords, or the embeddings     *)
(* when no keyword matched.  Its keyword_to_tx is built from the keywords   *)
(* of the document types as that of rag_service.py is.                      *)

\* _fallback_retrieve, step 1: one keyword of the index
fallback_keyword(st, index, kw, query_lower) ==
    IF text_in(kw, query_lower)
    THEN [scores |-> fold(LAMBDA scores, tx : plus(scores, tx, 3 * ScoreUnit),
                          st.scores, index.val[kw]),
          matched_keywords |-> Append(st.matched_keywords, kw)]
    ELSE st

\* _fallback_retrieve, step 1
fallback_keywords(index, query_lower) ==
    fold(LAMBDA st, kw : fallback_keyword(st, index, kw, query_lower),
         [scores |-> defaultdict, matched_keywords |-> <<>>], index.keys)

\* _fallback_retrieve, step 2: `if not matched_keywords:` the question is
\* encoded, which raises when the model is unavailable for it
fallback_embedding(self, query, st) ==
    IF st.matched_keywords # <<>> THEN Returned(st)
    ELSE IF query \in self.embed_model.unavailable THEN Raised("Exception")
    ELSE Returned(
             [st EXCEPT !.scores =
                 fold(LAMBDA scores, tx :
                         plus(scores, tx,
                              (dot(self.embed_model, query, tx) * ScoreUnit)
                                  \div SimilarityUnit),
                      @, self.tx_embeddings)])

\* best_tx = max(scores.keys(), key=...) if scores else "DO_SALE"
fallback_best(st) ==
    IF st.scores.keys = <<>> THEN "DO_SALE"
    ELSE first_max(st.scores.keys, LAMBDA tx : st.scores.val[tx])

\* the dictionary _fallback_retrieve returns
fallback_result(st, best_tx) ==
    [transaction      |-> best_tx,
     score            |-> IF st.scores.keys = <<>> THEN 0
                          ELSE st.scores.val[best_tx],
     matched_keywords |-> st.matched_keywords,
     method           |-> "FALLBACK",
     debug            |-> st.scores.val]

\* an exception of encode leaves _fallback_retrieve
fallback_returned(r) ==
    IF r.raised THEN r
    ELSE Returned(fallback_result(r.value, fallback_best(r.value)))

\* MiniRAGRetriever._fallback_retrieve(query), rag_posting_engine.py
_fallback_retrieve(self, query) ==
    fallback_returned(
        fallback_embedding(self, query,
                           fallback_keywords(self.graph.keyword_to_tx,
                                             lower(query))))

\* _classify_with_slm: answer is the transaction the language model names,
\* "None" when the call or the parsing of its answer raises; only a
\* declared document type is returned
_classify_with_slm(docs, answer) ==
    IF \E i \in 1..Len(docs) : docs[i].transaction_key = answer
    THEN answer ELSE "None"

\* the dictionary retrieve returns for a transaction the language model named
slm_result(transaction) ==
    [transaction      |-> transaction,
     score            |-> ScoreUnit,
     matched_keywords |-> <<>>,
     matched_concepts |-> <<>>,
     method           |-> "SLM",
     debug            |-> EmptyDict]
Q_NHAP_KHO == <<"nha^.p", "kho", "mua", "ha-ng">>
Q_CON_THUE == <<"co-n", "thue^/", "thi-", "sao">>
Q_XUAT_KHO == <<"xua^/t", "kho", "ba/n", "ha-ng", "gia/", "vo^/n", "5", "trie^.u">>
Q_HOA_DON == <<"ho/a", "ddo+n", "ba/n", "ha-ng", "ghi", "no+.", "131">>
Q_GIAI_THICH == <<"gia?i", "thi/ch", "chi", "tie^/t", "ho+n", "ve^-", "bu/t", "toa/n", "na-y", "giu/p", "to^i">>
Q_VI_DU_THU == <<"cho", "vi/", "du.", "phie^/u", "thu", "tie^-n">>
Q_XIN_CHAO == <<"xin", "cha-o">>
Q_VI_DU_CHI == <<"cho", "vi/", "du.", "ve^-", "phie^/u", "chi", "tie^-n", "tra?", "no+.", "nha-", "cung", "ca^/p">>
Q_BAN_HANG == <<"ba/n", "ha-ng", "thi-", "sao">>
Q_GHI_NO == <<"xua^/t", "kho", "ghi", "no+.", "kha/ch", "ha-ng", "co^ng", "no+.", "pha?i", "thu">>
Q_CHAO_THANH_TOAN == <<"xin", "cha-o", "thanh", "toa/n">>
Q_NHAP_KHO_THANH_TOAN == <<"nha^.p", "kho", "mua", "ha-ng", "thanh", "toa/n">>
Q_EMPTY == <<>>

Questions ==
    {Q_NHAP_KHO, Q_CON_THUE, Q_XUAT_KHO, Q_HOA_DON, Q_GIAI_THICH,
     Q_VI_DU_THU, Q_XIN_CHAO, Q_VI_DU_CHI, Q_BAN_HANG, Q_GHI_NO,
     Q_CHAO_THANH_TOAN, Q_NHAP_KHO_THANH_TOAN, Q_EMPTY}

-----------------------------------------------------------------------------
(* Configurations the resolver is exercised on.  posting_engine.json holds  *)
(* the rules, mappings and groups; they are inputs of the engine, drawn     *)
(* here from small sets.                                                    *)

MaxRules == 3

\* posting rules as posting_engine.json declares them (rag_service.py:317-337
\* and 607-626 read these keys); account_source_type, fixed_account_code and
\* description are optional
RuleAR ==
    [role_key |-> "AR_ACCOUNT", side |-> "DEBIT",
     account_source_type |-> "LOOKUP", priority |-> 1,
     description |-> "Phai thu khach hang"]

RuleRevenue ==
    [role_key |-> "REVENUE", side |-> "CREDIT",
     account_source_type |-> "LOOKUP", priority |-> 2]

RuleTax ==
    [role_key |-> "TAX_OUT", side |-> "CREDIT",
     account_source_type |-> "FIXED", fixed_account_code |-> "33311",
     priority |-> 2, description |-> "Thue GTGT phai nop"]

RuleClearing ==
    [role_key |-> "CLEARING", side |-> "DEBIT",
     fixed_account_code |-> "13881", priority |-> 3]

RuleInvalid ==
    [role_key |-> "OTHER", side |-> "CREDIT",
     account_source_type |-> "DYNAMIC", priority |-> 0]

RulePool == {RuleAR, RuleRevenue, RuleTax, RuleClearing, RuleInvalid}

\* lists of distinct rules, in any order, of at most n rules
RuleLists(n) ==
    UNION {{s \in [1..k -> RulePool] : \A i, j \in 1..k : s[i] = s[j] => i = j}
           : k \in 0..n}

CashInRules ==
    <<[role_key |-> "CASH", side |-> "DEBIT", account_source_type |-> "FIXED",
       fixed_account_code |-> "1111", priority |-> 1],
      [role_key |-> "AR_ACCOUNT", side |-> "CREDIT",
       account_source_type |-> "LOOKUP", priority |-> 2]>>

RuleConfigs ==
    {("SALES_INVOICE" :> rules) @@ ("CASH_IN" :> CashInRules)
     : rules \in RuleLists(MaxRules)}

GLMappings ==
    {EmptyDict,
     "CUSTOMER" :> ("AR_ACCOUNT" :> "131"),
     "GOODS" :> ("REVENUE" :> "5111"),
     ("GOODS" :> (("REVENUE" :> "5111") @@ ("AR_ACCOUNT" :> "1388")))
        @@ ("CUSTOMER" :> (("AR_ACCOUNT" :> "131") @@ ("REVENUE" :> "5113")))}

GroupConfigs ==
    {EmptyDict,
     ("GOODS" :> [code |-> "GOODS", posting_group_type |-> "ITEM_GROUP"])
        @@ ("CUSTOMER" :> [code |-> "CUSTOMER",
                           posting_group_type |-> "PARTNER_GROUP"]),
     ("GOODS" :> [code |-> "GOODS", posting_group_type |-> "ITEM_GROUP"])
        @@ ("CUSTOMER" :> [code |-> "CUSTOMER",
                           posting_group_type |-> "ITEM_GROUP"]),
     ("GOODS" :> [code |-> "GOODS"])
        @@ ("CUSTOMER" :> [code |-> "CUSTOMER",
                           posting_group_type |-> "PARTNER_GROUP"])}

ResolverTx == {"SALES_INVOICE", "CASH_IN", "STOCK_COUNT"}

ItemGroupArgs == {"GOODS", "CUSTOMER", "SERVICE"}

PartnerGroupArgs == {"CUSTOMER", "SUPPLIER"}

-----------------------------------------------------------------------------
(* The resolver on its own: one call of one copy of resolve on a            *)
(* configuration.                                                           *)

InitResolver ==
    /\ DOCUMENT_TYPES = <<>>
    /\ similarity = NoSimilarity
    /\ max_history = MAX_HISTORY_DEFAULT
    /\ history = <<>>
    /\ POSTING_RULES \in RuleConfigs
    /\ GL_MAPPING \in GLMappings
    /\ POSTING_GROUPS \in GroupConfigs
    /\ PYTHONHASHSEED = "insertion"
    /\ op = NoCall
    /\ ret = Returned(<<>>)
    /\ earlier = NoCall
    /\ calls = NoCalls

Resolve(copy, tx, item_group, partner_group) ==
    /\ op' = [name |-> "resolve", copy |-> copy, tx |-> tx,
              item_group |-> item_group, partner_group |-> partner_group]
    /\ ret' = resolve(copy, tx, item_group, partner_group)
    /\ UNCHANGED <<config, context, earlier>>
    /\ UNCHANGED calls

ResolveOnce ==
    /\ op = NoCall
    /\ \E copy \in Copies, tx \in ResolverTx,
          item_group \in ItemGroupArgs, partner_group \in PartnerGroupArgs :
            Resolve(copy, tx, item_group, partner_group)

NextResolver == ResolveOnce

SpecResolver == InitResolver /\ [][NextResolver]_vars

-----------------------------------------------------------------------------
(* Properties of PostingEngineResolver.resolve, checked under SpecResolver  *)

ResolveReturned == op.name = "resolve" /\ ~ ret.raised

\* the rules of the resolved transaction in the order resolve visits them
VisitedRules == sorted_by_priority(Get(POSTING_RULES, op.tx, <<>>))

IsItemGroup(g) ==
    /\ g \in DOMAIN POSTING_GROUPS
    /\ "posting_group_type" \in DOMAIN POSTING_GROUPS[g]
    /\ POSTING_GROUPS[g].posting_group_type = "ITEM_GROUP"

HasMapping(g, role_key) ==
    g \in DOMAIN GL_MAPPING /\ role_key \in DOMAIN GL_MAPPING[g]

MappingEntry(g, role_key) ==
    IF HasMapping(g, role_key) THEN GL_MAPPING[g][role_key] ELSE ""

SelectedGroup == IF IsItemGroup(op.item_group) THEN op.item_group
                 ELSE op.partner_group

IsLookupRule(r) ==
    "account_source_type" \in DOMAIN r /\ r.account_source_type = "LOOKUP"

\* C1: the entries returned by resolve are non-decreasing in priority,
\* whatever the order of the rules in the configuration.
C1_PriorityOrder ==
    ResolveReturned =>
        \A i, j \in 1..Len(ret.value) :
            i < j => ret.value[i].priority <= ret.value[j].priority

\* C1 witness: resolve returned two or more entries for a transaction whose
\* rules are configured out of priority order.
C1_Witness ==
    /\ ResolveReturned
    /\ Len(ret.value) >= 2
    /\ LET rules == Get(POSTING_RULES, op.tx, <<>>)
       IN  \E i, j \in 1..Len(rules) :
              i < j /\ rules[i].priority > rules[j].priority

\* C2: the account of every entry produced by a LOOKUP rule is the GL mapping
\* entry for (item_group, role_key) when item_group is a declared posting
\* group of type ITEM_GROUP, and the entry for (partner_group, role_key) in
\* every other case; the other group's mapping plays no part.
C2_LookupTable ==
    ResolveReturned =>
        /\ Len(ret.value) = Len(VisitedRules)
        /\ \A i \in 1..Len(ret.value) :
              IsLookupRule(VisitedRules[i]) =>
                 ret.value[i].account =
                    MappingEntry(SelectedGroup, VisitedRules[i].role_key)

\* C2 witness: a LOOKUP rule resolved through partner_group because
\* item_group is not of type ITEM_GROUP, while item_group maps the same role
\* to another account.
C2_Witness ==
    /\ ResolveReturned
    /\ ~ IsItemGroup(op.item_group)
    /\ \E i \in 1..Len(ret.value) :
          /\ IsLookupRule(VisitedRules[i])
          /\ HasMapping(op.item_group, VisitedRules[i].role_key)
          /\ HasMapping(op.partner_group, VisitedRules[i].role_key)
          /\ MappingEntry(op.item_group, VisitedRules[i].role_key)
                # MappingEntry(op.partner_group, VisitedRules[i].role_key)
          /\ ret.value[i].account
                = MappingEntry(op.partner_group, VisitedRules[i].role_key)

\* the configuration and call of the spec's scenario 3, on the copies of
\* resolve that return is_lookup
Scenario3 ==
    /\ op.name = "resolve"
    /\ op.copy \in {"rag_posting_engine", "posting_engine_agent"}
    /\ op.tx = "SALES_INVOICE"
    /\ op.item_group = "GOODS"
    /\ op.partner_group = "CUSTOMER"
    /\ POSTING_RULES["SALES_INVOICE"] = <<RuleAR>>
    /\ GL_MAPPING = ("CUSTOMER" :> ("AR_ACCOUNT" :> "131"))

Scenario3Entry ==
    /\ ~ ret.raised
    /\ Len(ret.value) = 1
    /\ ret.value[1].side = "DEBIT"
    /\ ret.value[1].account = "131"
    /\ ret.value[1].is_lookup = TRUE

\* C3 as stated: scenario 3 returns the entry DEBIT / "131" / is_lookup
\* whatever the posting groups are.
C3_Original == Scenario3 => Scenario3Entry

\* C3 amended: scenario 3 returns the entry DEBIT / "131" / is_lookup when
\* GOODS is not a declared posting group of type ITEM_GROUP.
C3_Scenario == (Scenario3 /\ ~ IsItemGroup("GOODS")) => Scenario3Entry

\* C3 witness: scenario 3 resolved with GOODS declared, but without a
\* posting_group_type of ITEM_GROUP.
C3_Witness ==
    /\ Scenario3
    /\ "GOODS" \in DOMAIN POSTING_GROUPS
    /\ ~ IsItemGroup("GOODS")
    /\ Scenario3Entry

\* what rule r must produce: its own side and priority, and the account its
\* source type names ("" for a LOOKUP whose mapping is missing)
ExpectedAccount(r) ==
    IF IsLookupRule(r) THEN MappingEntry(SelectedGroup, r.role_key)
    ELSE IF "fixed_account_code" \in DOMAIN r THEN r.fixed_account_code
    ELSE ""

\* C4: a missing GL mapping never makes resolve raise: the LOOKUP rule still
\* yields an entry, with an empty account, and every other rule yields its
\* entry unchanged; resolve raises only on an invalid account_source_type.
C4_MissingMapping ==
    op.name = "resolve" =>
        IF ret.raised
        THEN \E i \in 1..Len(VisitedRules) :
                /\ "account_source_type" \in DOMAIN VisitedRules[i]
                /\ VisitedRules[i].account_source_type \notin {"FIXED", "LOOKUP"}
        ELSE /\ Len(ret.value) = Len(VisitedRules)
             /\ \A i \in 1..Len(ret.value) :
                   /\ ret.value[i].side = VisitedRules[i].side
                   /\ ret.value[i].priority = VisitedRules[i].priority
                   /\ \/ ret.value[i].account = ExpectedAccount(VisitedRules[i])
                      \/ account_source_type(VisitedRules[i])
                            \notin {"FIXED", "LOOKUP"}

\* C4 witness: resolve returned an entry with an empty account for a LOOKUP
\* rule whose mapping is missing, next to an entry with a resolved account.
C4_Witness ==
    /\ ResolveReturned
    /\ \E i, j \in 1..Len(ret.value) :
          /\ IsLookupRule(VisitedRules[i])
          /\ ~ HasMapping(SelectedGroup, VisitedRules[i].role_key)
          /\ ret.value[i].account = ""
          /\ ret.value[j].account # ""

\* C5 as stated: every entry carries is_lookup, true exactly for the entries
\* of LOOKUP rules.
C5_IsLookupFlag ==
    ResolveReturned =>
        \A i \in 1..Len(ret.value) :
            /\ "is_lookup" \in DOMAIN ret.value[i]
            /\ ret.value[i].is_lookup = IsLookupRule(VisitedRules[i])

-----------------------------------------------------------------------------
(* ConversationContext on its own: any sequence of add, load and clear on   *)
(* one instance, for every capacity from 1 up to the default.               *)

MaxLoadLen == 6

ContextQuestions == {"nhap kho mua hang", "con thue thi sao"}

ContextTx == {"GRN_PURCHASE", "CASH_IN"}

\* items handed to load by a caller: the second has no "transaction" key, the
\* third names a transaction TRANSACTION_NAMES does not know
LoadItems ==
    <<[question |-> "xuat kho ban hang", transaction |-> "DO_SALE"],
      [question |-> "xin chao"],
      [question |-> "tinh luong", transaction |-> "PAYROLL"]>>

\* the list of n items that starts at LoadItems[k + 1] and cycles from there
LoadList(n, k) == [i \in 1..n |-> LoadItems[((i + k) % Len(LoadItems)) + 1]]

LoadLists == {LoadList(n, k) : n \in 0..MaxLoadLen, k \in 1..Len(LoadItems)}

InitContext ==
    /\ DOCUMENT_TYPES = <<>>
    /\ POSTING_RULES = EmptyDict
    /\ GL_MAPPING = EmptyDict
    /\ POSTING_GROUPS = EmptyDict
    /\ similarity = NoSimilarity
    /\ max_history \in 1..MAX_HISTORY_DEFAULT
    /\ history = <<>>
    /\ PYTHONHASHSEED = "insertion"
    /\ op = NoCall
    /\ ret = Returned("None")
    /\ earlier = NoCall
    /\ calls = NoCalls

\* CONVERSATION_CONTEXT.add(question, transaction)
Add(question, transaction) ==
    /\ history' = add(history, question, transaction)
    /\ op' = [name |-> "add", question |-> question,
              transaction |-> transaction,
              evicted |-> Len(history) + 1 > max_history]
    /\ ret' = Returned("None")
    /\ UNCHANGED <<config, max_history, earlier>>
    /\ UNCHANGED calls

\* RagAccounting.load_context(history) -> CONVERSATION_CONTEXT.load(history)
Load(items) ==
    /\ history' = load(items)
    /\ op' = [name |-> "load", items |-> items]
    /\ ret' = Returned("None")
    /\ UNCHANGED <<config, max_history, earlier>>
    /\ UNCHANGED calls

\* RagAccounting.reset_context() -> CONVERSATION_CONTEXT.clear()
Clear ==
    /\ history' = <<>>
    /\ op' = [name |-> "clear"]
    /\ ret' = Returned("None")
    /\ UNCHANGED <<config, max_history, earlier>>
    /\ UNCHANGED calls

NextContext ==
    \/ \E question \in ContextQuestions, transaction \in ContextTx :
          Add(question, transaction)
    \/ \E items \in LoadLists : Load(items)
    \/ Clear

SpecContext == InitContext /\ [][NextContext]_vars

\* C7: the history never holds more than max_history entries, and an add on
\* a full buffer removes exactly the oldest entry, keeps the others in order
\* and puts the new entry last.
C7_BoundedHistory ==
    /\ [](Len(history) <= max_history)
    /\ [][(op'.name = "add" /\ Len(history) = max_history) =>
             history' = Append(Tail(history),
                               history_entry(op'.question, op'.transaction))]_vars

\* C7 witness: an add on a buffer that was full at the default capacity,
\* whose entry is now the last of max_history entries.
C7_Witness ==
    /\ op.name = "add"
    /\ op.evicted
    /\ max_history = MAX_HISTORY_DEFAULT
    /\ Len(history) = max_history
    /\ history[Len(history)].question = op.question
    /\ history[1] # history[Len(history)]

-----------------------------------------------------------------------------
(* The engine: the module-level objects of rag_service.py and the          *)
(* operations a caller has on them.  posting_engine.json and the embedding *)
(* model are inputs, fixed when the engine starts.                          *)

\* the longest conversation followed: ask is not called on a history of
\* MaxConversation entries
MaxConversation == 2

EngineRules ==
    ("SALES_INVOICE" :> <<RuleTax, RuleAR, RuleRevenue>>)
        @@ ("CASH_IN" :> CashInRules)
        @@ ("GRN_PURCHASE" :> <<RuleClearing, RuleRevenue>>)
        @@ ("CASH_OUT" :> <<RuleInvalid>>)

EngineMapping ==
    ("GOODS" :> (("REVENUE" :> "5111") @@ ("AR_ACCOUNT" :> "1388")))
        @@ ("CUSTOMER" :> (("AR_ACCOUNT" :> "131") @@ ("REVENUE" :> "5113")))

EngineGroups ==
    ("GOODS" :> [code |-> "GOODS", posting_group_type |-> "ITEM_GROUP"])
        @@ ("CUSTOMER" :> [code |-> "CUSTOMER",
                           posting_group_type |-> "PARTNER_GROUP"])

\* the questions of a conversation
ConversationQuestions ==
    {Q_NHAP_KHO, Q_CON_THUE, Q_GIAI_THICH, Q_VI_DU_THU, Q_XIN_CHAO,
     Q_VI_DU_CHI, Q_BAN_HANG}

\* the questions retrieve is called on between the turns of a conversation:
\* one with a keyword, a follow-up, and a greeting that matches nothing
RetrievedQuestions == {Q_NHAP_KHO, Q_CON_THUE, Q_XIN_CHAO}

\* embedding models: similarities are in units of 1/SimilarityUnit
SimilarityPurchase ==
    [unavailable |-> {},
     dot |-> [q \in Questions |->
                 ("GRN_PURCHASE" :> 4) @@ ("CASH_OUT" :> 4) @@ ("DO_SALE" :> -2)]]

SimilaritySales ==
    [unavailable |-> {Q_XIN_CHAO},
     dot |-> [q \in Questions |-> ("SALES_INVOICE" :> 3) @@ ("CASH_IN" :> 1)]]

EmbeddingModels == {NoSimilarity, SimilarityPurchase, SimilaritySales}

\* an embedding service that is down: encode raises on every question
EmbeddingDown == [unavailable |-> Questions, dot |-> EmptyDict]

\* the models the retriever is called under when it is called alone
RetrieverModels == EmbeddingModels \cup {EmbeddingDown}

\* MINI_RAG_GRAPH = MiniRAGGraph(), rag_service.py:636: built once, from the
\* configuration loaded
MINI_RAG_GRAPH == MiniRAGGraph(DOCUMENT_TYPES, POSTING_RULES, PYTHONHASHSEED)

\* MINI_RAG_RETRIEVER = MiniRAGRetriever(MINI_RAG_GRAPH), rag_service.py:637
MINI_RAG_RETRIEVER == MiniRAGRetriever(MINI_RAG_GRAPH, similarity, DOCUMENT_TYPES)

\* retrieve is a function of the retriever and the question: its results for
\* the engine's configuration, computed once
RETRIEVED ==
    [hash_order \in HashOrders, embed_model \in RetrieverModels,
     query \in Questions |->
        retrieve(MiniRAGRetriever(MiniRAGGraph(ReferenceDocuments, EngineRules,
                                               hash_order),
                                  embed_model, ReferenceDocuments),
                 query)]

\* retrieve breaking a tie on the maximum score by the conversation: of the
\* transactions that share the score of the one retrieve ranks first, the
\* transaction of the most recent entry of the history is returned
prefer_last(result, last) ==
    IF /\ ~ result.raised
       /\ last \in DOMAIN result.value.all_scores
       /\ result.value.all_scores[last] = result.value.score
    THEN Returned([result.value EXCEPT !.transaction = last])
    ELSE result

retrieved_after_history(question) ==
    prefer_last(IF /\ DOCUMENT_TYPES = ReferenceDocuments
                   /\ POSTING_RULES = EngineRules
                   /\ similarity \in RetrieverModels
                   /\ question \in Questions
                THEN RETRIEVED[PYTHONHASHSEED, similarity, question]
                ELSE retrieve(MINI_RAG_RETRIEVER, question),
                get_last_transaction(history))

\* MINI_RAG_RETRIEVER.retrieve(question)
retrieved(question) ==
    IF /\ DOCUMENT_TYPES = ReferenceDocuments
       /\ POSTING_RULES = EngineRules
       /\ similarity \in RetrieverModels
       /\ question \in Questions
    THEN RETRIEVED[PYTHONHASHSEED, similarity, question]
    ELSE retrieve(MINI_RAG_RETRIEVER, question)

\* len(question) < 30
is_short(question) == len(question) < 30

\* any(ind in question_lower for ind in followup_indicators)
has_indicator(question) == any_in(followup_indicators, lower(question))

\* not result['matched_keywords'] and not result['matched_concepts']
no_direct_match(result) ==
    result.matched_keywords = <<>> /\ result.matched_concepts = <<>>

\* what is_followup_question reads of a question, computed once
QUESTION_FACTS ==
    [question \in Questions |->
        [is_short |-> is_short(question),
         has_indicator |-> has_indicator(question)]]

question_facts(question) ==
    IF question \in Questions THEN QUESTION_FACTS[question]
    ELSE [is_short |-> is_short(question),
          has_indicator |-> has_indicator(question)]

\* the value is_followup_question returns: (is_short and has_indicator) or
\* (has_indicator and no_direct_match)
followup_of(facts, result) ==
    IF result.raised THEN result
    ELSE Returned(\/ facts.is_short /\ facts.has_indicator
                  \/ facts.has_indicator /\ no_direct_match(result.value))

\* the value is_followup_question would return with `and` between its
\* three conditions
followup_when_all_three(facts, result) ==
    IF result.raised THEN result
    ELSE Returned(/\ facts.is_short
                  /\ facts.has_indicator
                  /\ no_direct_match(result.value))

\* is_followup_question with `and` between its three conditions
is_followup_when_all_three(h, question) ==
    IF h = <<>> THEN Returned(FALSE)
    ELSE followup_when_all_three(question_facts(question),
                                 retrieved(question))

\* is_followup_question without `if not self.history: return False`
is_followup_whatever_history(h, question) ==
    followup_of(question_facts(question), retrieved(question))

\* ConversationContext.is_followup_question(question), on the history h
is_followup_question(h, question) ==
    IF h = <<>> THEN Returned(FALSE)
    ELSE followup_of(question_facts(question), retrieved(question))

\* `if context_tx`: None and the empty string are false
truthy(transaction) == transaction \notin {"None", ""}

\* tx = result["transaction"], and no more
retrieved_transaction(is_followup, context_tx, result) == result.transaction

\* tx = result["transaction"], or context_tx for a follow-up that matched
\* nothing
answer_transaction(is_followup, context_tx, result) ==
    IF is_followup /\ truthy(context_tx) /\ no_direct_match(result)
    THEN context_tx
    ELSE result.transaction

\* what the prompt is built from: the name of tx and its entries
posting(tx, entries) ==
    IF entries.raised THEN entries
    ELSE Returned([transaction |-> transaction_name(tx),
                   entries |-> entries.value])

\* ask from CONVERSATION_CONTEXT.add(question, tx) on
ask_answered(h, question, item_group, partner_group, is_followup, context_tx, retrieved_tx, tx) ==
    [history     |-> add(h, question, tx),
     ret         |-> posting(tx, resolve_rag_service(tx, item_group,
                                                     partner_group)),
     recorded    |-> TRUE,
     is_followup |-> is_followup,
     context_tx  |-> context_tx,
     retrieved   |-> retrieved_tx,
     transaction |-> tx]

\* ask after step 1; an exception of retrieve leaves ask before anything is
\* recorded
ask_retrieved(h, question, item_group, partner_group, is_followup, context_tx, result) ==
    IF is_followup.raised \/ result.raised
    THEN [history     |-> h,
          ret         |-> IF is_followup.raised THEN is_followup ELSE result,
          recorded    |-> FALSE,
          is_followup |-> FALSE,
          context_tx  |-> context_tx,
          retrieved   |-> "None",
          transaction |-> "None"]
    ELSE ask_answered(h, question, item_group, partner_group,
                      is_followup.value, context_tx,
                      result.value.transaction,
                      answer_transaction(is_followup.value, context_tx,
                                         result.value))

\* RagAccounting.ask(question, item_group, partner_group), on the history h,
\* up to the prompt: the history it leaves, what the answer is built from
\* (or the exception raised), and the values of its steps
ask(h, question, item_group, partner_group) ==
    ask_retrieved(h, question, item_group, partner_group,
                  is_followup_question(h, question), get_last_transaction(h),
                  retrieved(question))

\* the lists load_context is called with: an entry, an entry whose
\* transaction is the empty string, no valid item, and an entry of a
\* transaction the configuration does not have after an invalid item
EngineLoadLists ==
    {<<[question |-> Q_NHAP_KHO, transaction |-> "DO_SALE"]>>,
     <<[question |-> Q_NHAP_KHO, transaction |-> ""]>>,
     <<[question |-> Q_XIN_CHAO], [transaction |-> "CASH_IN"]>>,
     <<[question |-> Q_XIN_CHAO],
       [question |-> Q_CON_THUE, transaction |-> "PAYROLL"]>>}

AskGroups == {<<"GOODS", "CUSTOMER">>, <<"CUSTOMER", "SUPPLIER">>}

ResolveArgs ==
    {<<"SALES_INVOICE", "GOODS", "CUSTOMER">>,
     <<"SALES_INVOICE", "CUSTOMER", "CUSTOMER">>,
     <<"CASH_OUT", "GOODS", "CUSTOMER">>}

\* POSTING_RULES, were resolve to order the rules with rules.sort(key=...),
\* which orders the list that POSTING_RULES holds
rules_sorted_in_place(rules_of, tx) ==
    IF tx \in DOMAIN rules_of
    THEN [rules_of EXCEPT ![tx] = sorted_by_priority(@)]
    ELSE rules_of

\* POSTING_RULES after resolve(tx, ...): POSTING_RULES.get(tx, []) adds no
\* key, and sorted(rules, ...) returns a new list and leaves rules as it is
rules_after_resolve(rules_of, tx) == rules_of

Init ==
    /\ DOCUMENT_TYPES = ReferenceDocuments
    /\ POSTING_RULES = EngineRules
    /\ GL_MAPPING = EngineMapping
    /\ POSTING_GROUPS = EngineGroups
    /\ PYTHONHASHSEED \in HashOrders
    /\ similarity \in EmbeddingModels
    /\ max_history = MAX_HISTORY_DEFAULT
    /\ history = <<>>
    /\ op = NoCall
    /\ ret = Returned("None")
    /\ earlier = NoCall
    /\ calls = NoCalls

\* the conversational sessions whose requests reach the engine
Sessions == {"s1", "s2"}

\* RagAccounting.ask(question, item_group, partner_group), run to its end,
\* for a request of session: ask has no parameter for the session, and
\* reads and writes CONVERSATION_CONTEXT whatever the session is
Ask(session, question, item_group, partner_group) ==
    /\ Len(history) < MaxConversation
    /\ \E a \in {ask(history, question, item_group, partner_group)} :
          /\ history' = a.history
          /\ ret' = a.ret
          /\ op' = [name |-> "ask", session |-> session,
                    question |-> question,
                    item_group |-> item_group, partner_group |-> partner_group,
                    recorded |-> a.recorded, is_followup |-> a.is_followup,
                    context_tx |-> a.context_tx, retrieved |-> a.retrieved,
                    transaction |-> a.transaction]
          /\ POSTING_RULES' = rules_after_resolve(POSTING_RULES, a.transaction)
    /\ UNCHANGED <<DOCUMENT_TYPES, GL_MAPPING, POSTING_GROUPS, PYTHONHASHSEED,
                   similarity, max_history, earlier>>
    /\ UNCHANGED calls

\* MINI_RAG_RETRIEVER.retrieve(question).  As for resolve, earlier keeps one
\* of the calls made while the history was empty, and its result
Retrieve(question) ==
    /\ op' = [name |-> "retrieve", copy |-> "rag_service",
              question |-> question]
    /\ ret' = retrieved(question)
    /\ \/ UNCHANGED earlier
       \/ /\ history = <<>>
          /\ earlier' = [name |-> "retrieve", args |-> <<question>>,
                         ret  |-> ret']
    /\ UNCHANGED <<config, context>>
    /\ UNCHANGED calls

\* CONVERSATION_CONTEXT.is_followup_question(question)
IsFollowupQuestion(question) ==
    /\ op' = [name |-> "is_followup_question", question |-> question]
    /\ ret' = is_followup_question(history, question)
    /\ UNCHANGED <<config, context, earlier>>
    /\ UNCHANGED calls

\* CONVERSATION_CONTEXT.get_last_transaction()
GetLastTransaction ==
    /\ op' = [name |-> "get_last_transaction"]
    /\ ret' = Returned(get_last_transaction(history))
    /\ UNCHANGED <<config, context, earlier>>
    /\ UNCHANGED calls

\* PostingEngineResolver.resolve(tx, item_group, partner_group).  earlier
\* keeps one of the calls made while the history was empty, and its result:
\* whatever the conversation does afterwards lies between that call and a
\* later one
EngineResolve(tx, item_group, partner_group) ==
    /\ op' = [name |-> "resolve", copy |-> "rag_service", tx |-> tx,
              item_group |-> item_group, partner_group |-> partner_group]
    /\ ret' = resolve_rag_service(tx, item_group, partner_group)
    /\ \/ UNCHANGED earlier
       \/ /\ history = <<>>
          /\ earlier' = [name |-> "resolve",
                         args |-> <<tx, item_group, partner_group>>,
                         ret  |-> ret']
    /\ POSTING_RULES' = rules_after_resolve(POSTING_RULES, tx)
    /\ UNCHANGED <<DOCUMENT_TYPES, GL_MAPPING, POSTING_GROUPS, PYTHONHASHSEED,
                   similarity, context>>
    /\ UNCHANGED calls

Next ==
    \/ \E session \in Sessions, question \in ConversationQuestions,
          groups \in AskGroups :
          Ask(session, question, groups[1], groups[2])
    \/ \E question \in RetrievedQuestions : Retrieve(question)
    \/ \E question \in ConversationQuestions : IsFollowupQuestion(question)
    \/ GetLastTransaction
    \/ \E args \in ResolveArgs : EngineResolve(args[1], args[2], args[3])
    \/ \E items \in EngineLoadLists : Load(items)
    \/ Clear

Spec == Init /\ [][Next]_vars
-----------------------------------------------------------------------------
(* Properties of the engine.                                               *)

\* the arguments of the resolve call op
ResolveCall == <<op.tx, op.item_group, op.partner_group>>

\* op is a resolve call with the arguments of the call kept in earlier
SameCallAsEarlier ==
    /\ op.name = "resolve"
    /\ earlier.name = "resolve"
    /\ earlier.args = ResolveCall

FollowupReturned == op.name = "is_followup_question" /\ ~ ret.raised

\* the retriever reports neither a keyword nor a concept match for question
ReportsNoMatch(question) ==
    /\ ~ retrieved(question).raised
    /\ no_direct_match(retrieved(question).value)

\* C8, as stated: is_followup_question returns true only when the question
\* is shorter than 30 characters, contains a follow-up indicator and the
\* retriever reports neither a keyword nor a concept match for it.
C8_Original ==
    (FollowupReturned /\ ret.value) =>
        /\ question_facts(op.question).is_short
        /\ question_facts(op.question).has_indicator
        /\ ReportsNoMatch(op.question)

\* C8: is_followup_question returns true exactly when the history is not
\* empty, the question contains a follow-up indicator, and the question is
\* shorter than 30 characters or the retriever reports neither a keyword
\* nor a concept match for it; it raises exactly when the history is not
\* empty and retrieve raises.
C8_FollowupQuestion ==
    op.name = "is_followup_question" =>
        /\ ret.raised <=> (history # <<>> /\ retrieved(op.question).raised)
        /\ ~ ret.raised =>
              ret.value =
                 (/\ history # <<>>
                  /\ question_facts(op.question).has_indicator
                  /\ \/ question_facts(op.question).is_short
                     \/ ReportsNoMatch(op.question))

\* a question of 30 characters or more is reported as a follow-up
C8_Witness ==
    /\ FollowupReturned
    /\ ret.value
    /\ ~ question_facts(op.question).is_short
    /\ ReportsNoMatch(op.question)

\* steps 1 and 2 of retrieve alone: the question contains a keyword or a
\* concept of the index
has_direct_match(G, query) ==
    \E st \in {concept_matching(G, lower(query),
                   keyword_matching(G, lower(query), retrieve_locals))} :
        st.matched_keywords.keys # <<>> \/ st.matched_concepts.keys # <<>>

\* has_direct_match on the engine's graph, computed once
DIRECT_MATCH ==
    [hash_order \in HashOrders, query \in Questions |->
        has_direct_match(MiniRAGGraph(ReferenceDocuments, EngineRules,
                                      hash_order), query)]

\* the transaction of the most recent entry of the history
LastTransaction == history[Len(history)].transaction

\* this step is a call of ask, made on a history that is not empty, with a
\* question shorter than 30 characters that contains a follow-up indicator
ShortIndicatorAsked ==
    /\ op'.name = "ask"
    /\ history # <<>>
    /\ question_facts(op'.question).is_short
    /\ question_facts(op'.question).has_indicator

\* ask classified the question as transaction: it recorded the question
\* with it and built its answer from the entries resolve returns for it
ClassifiedAs(transaction) ==
    /\ op'.transaction = transaction
    /\ history' = add(history, op'.question, transaction)
    /\ ret' = posting(transaction,
                      resolve_rag_service(transaction, op'.item_group,
                                          op'.partner_group))

C10_EmptyHistory ==
    /\ (op.name = "is_followup_question" /\ history = <<>>)
          => ret = Returned(FALSE)
    /\ (op.name = "get_last_transaction" /\ history = <<>>)
          => ret = Returned("None")
    /\ (op.name = "ask" /\ op.recorded /\ Len(history) = 1)
          => /\ ~ retrieved(op.question).raised
             /\ history[1].transaction =
                   retrieved(op.question).value.transaction
             /\ op.transaction = history[1].transaction
    /\ (op.name = "ask" /\ ~ op.recorded /\ history = <<>>)
          => /\ retrieved(op.question).raised
             /\ ret = retrieved(op.question)

\* is_followup_question has answered on an empty history for a question on
\* which retrieve raises
C10_Witness ==
    /\ op.name = "is_followup_question"
    /\ history = <<>>
    /\ ret = Returned(FALSE)
    /\ retrieved(op.question).raised
-----------------------------------------------------------------------------
(* Properties of the retriever.                                            *)

\* op is a retrieve call on the question of the call kept in earlier
SameQuestionAsEarlier ==
    /\ op.name = "retrieve"
    /\ earlier.name = "retrieve"
    /\ earlier.args = <<op.question>>

\* the transactions that have the greatest score of a result
TiedOnMaximum(result) ==
    {tx \in DOMAIN result.all_scores :
        \A other \in DOMAIN result.all_scores :
            result.all_scores[other] <= result.all_scores[tx]}

-----------------------------------------------------------------------------
(* The retriever alone: retrieve of rag_service.py and retrieve of         *)
(* rag_posting_engine.py, called on every question under every embedding    *)
(* model and every answer of the language model.                            *)

\* what the language model answers: nothing (the call or the parsing of the
\* answer raised), a document type, a name that is no document type
SlmAnswers == {"None", "CASH_IN", "PAYROLL"}

\* _fallback_retrieve is a function of the retriever and the question: its
\* results for the engine's configuration, computed once
FALLBACK_RETRIEVED ==
    [hash_order \in HashOrders, embed_model \in RetrieverModels,
     query \in Questions |->
        _fallback_retrieve(
            MiniRAGRetriever(MiniRAGGraph(ReferenceDocuments, EngineRules,
                                          hash_order),
                             embed_model, ReferenceDocuments),
            query)]

\* self._fallback_retrieve(query)
fallback_retrieved(question) ==
    IF /\ DOCUMENT_TYPES = ReferenceDocuments
       /\ POSTING_RULES = EngineRules
       /\ similarity \in RetrieverModels
       /\ question \in Questions
    THEN FALLBACK_RETRIEVED[PYTHONHASHSEED, similarity, question]
    ELSE _fallback_retrieve(MINI_RAG_RETRIEVER, question)

\* MiniRAGRetriever.retrieve(query) of rag_posting_engine.py, the language
\* model answering answer
retrieve_rag_posting_engine(question, answer) ==
    IF truthy(_classify_with_slm(DOCUMENT_TYPES, answer))
    THEN Returned(slm_result(_classify_with_slm(DOCUMENT_TYPES, answer)))
    ELSE fallback_retrieved(question)

InitRetriever ==
    /\ DOCUMENT_TYPES = ReferenceDocuments
    /\ POSTING_RULES = EngineRules
    /\ GL_MAPPING = EngineMapping
    /\ POSTING_GROUPS = EngineGroups
    /\ PYTHONHASHSEED \in HashOrders
    /\ similarity \in RetrieverModels
    /\ max_history = MAX_HISTORY_DEFAULT
    /\ history = <<>>
    /\ op = NoCall
    /\ ret = Returned("None")
    /\ earlier = NoCall
    /\ calls = NoCalls

\* MiniRAGRetriever.retrieve(question) of rag_posting_engine.py
RetrieveRagPostingEngine(question, answer) ==
    /\ op' = [name |-> "retrieve", copy |-> "rag_posting_engine",
              question |-> question, answer |-> answer]
    /\ ret' = retrieve_rag_posting_engine(question, answer)
    /\ UNCHANGED <<config, context, earlier>>
    /\ UNCHANGED calls

NextRetriever ==
    \/ \E question \in Questions : Retrieve(question)
    \/ \E question \in Questions, answer \in SlmAnswers :
          RetrieveRagPostingEngine(question, answer)

SpecRetriever == InitRetriever /\ [][NextRetriever]_vars

-----------------------------------------------------------------------------
(* Properties of the retriever called alone.                               *)

\* op is a call of retrieve of rag_service.py
RetrieveCalled == op.name = "retrieve" /\ op.copy = "rag_service"

\* op is a call of retrieve in which encode was called on the question and
\* raised: retrieve of rag_service.py encodes every question, retrieve of
\* rag_posting_engine.py the questions the language model gave no document
\* type for and no keyword matched
EncodeRaised ==
    /\ op.name = "retrieve"
    /\ op.question \in similarity.unavailable
    /\ \/ op.copy = "rag_service"
       \/ /\ op.copy = "rag_posting_engine"
          /\ ~ truthy(_classify_with_slm(DOCUMENT_TYPES, op.answer))
          /\ \/ ret.raised
             \/ ret.value.matched_keywords = <<>>

\* C12: when the embedding call for the question fails, retrieve raises
\* nothing and returns a classification with method "FALLBACK".
C12_EmbeddingFailure ==
    EncodeRaised => /\ ~ ret.raised
                    /\ ret.value.method = "FALLBACK"

\* the scores of steps 1 to 5 of retrieve (keywords, concepts, expansion,
\* penalties, disambiguation and graph traversal) on the engine's graph,
\* computed once
LEXICAL_SCORES ==
    [hash_order \in HashOrders, query \in Questions |->
        graph_scores(MiniRAGGraph(ReferenceDocuments, EngineRules,
                                  hash_order), query).scores.val]

\* no transaction has a positive keyword, concept or graph-traversal score
NoPositiveScore(question) ==
    \A tx \in DOMAIN LEXICAL_SCORES[PYTHONHASHSEED, question] :
        LEXICAL_SCORES[PYTHONHASHSEED, question][tx] <= 0

\* C13: when the embedding call fails and no transaction has a positive
\* keyword, concept or graph-traversal score, retrieve raises nothing and
\* returns the default transaction (the code names one default, "DO_SALE")
\* with method "FALLBACK".
C13_DefaultTransaction ==
    (EncodeRaised /\ NoPositiveScore(op.question)) =>
        /\ ~ ret.raised
        /\ ret.value.method = "FALLBACK"
        /\ ret.value.transaction = "DO_SALE"

-----------------------------------------------------------------------------
(* Start-up: the import of rag_service.py loads posting_engine.json, builds *)
(* the graph and the retriever (rag_service.py:15-28, 636-637).  Nothing of *)
(* the module can be called before the import has returned, or after it     *)
(* has raised.                                                              *)

\* the item that {item[key]: ... for item in items} keeps for the key k: a
\* later item replaces an earlier one of the same key
last_with(items, key, k) ==
    items[CHOOSE i \in 1..Len(items) :
             /\ items[i][key] = k
             /\ \A j \in (i + 1)..Len(items) : items[j][key] # k]

\* the keys the module reads of CONFIG, rag_service.py:24-28
ConfigKeys ==
    {"document_types", "posting_rules", "gl_mapping", "posting_groups",
     "role_keys"}

\* a key the module subscripts is missing from CONFIG or from one of its
\* items
key_missing(CONFIG) ==
    \/ ConfigKeys \ DOMAIN CONFIG # {}
    \/ \E i \in 1..Len(CONFIG.document_types) :
          "transaction_key" \notin DOMAIN CONFIG.document_types[i]
    \/ \E i \in 1..Len(CONFIG.posting_rules) :
          {"je_doc_type", "rules"} \ DOMAIN CONFIG.posting_rules[i] # {}
    \/ \E i \in 1..Len(CONFIG.posting_groups) :
          "code" \notin DOMAIN CONFIG.posting_groups[i]

\* rag_service.py:18-28, on the file posting_engine.json.  DOCUMENT_TYPES
\* is kept as the list of the document types, in the order of its keys
load_config(file) ==
    IF ~ file.exists THEN Raised("FileNotFoundError")
    ELSE IF key_missing(file.config) THEN Raised("KeyError")
    ELSE Returned(
             [DOCUMENT_TYPES |-> file.config.document_types,
              POSTING_RULES  |->
                 [tx \in {file.config.posting_rules[i].je_doc_type :
                             i \in 1..Len(file.config.posting_rules)} |->
                     last_with(file.config.posting_rules, "je_doc_type",
                               tx).rules],
              GL_MAPPING     |-> file.config.gl_mapping,
              POSTING_GROUPS |->
                 [code \in {file.config.posting_groups[i].code :
                               i \in 1..Len(file.config.posting_groups)} |->
                     last_with(file.config.posting_groups, "code", code)]])

\* _build_graph, step 4, subscripts rule["side"] and rule["role_key"] of a
\* FIXED rule that has an account
build_raises(rules_of) ==
    \E tx \in DOMAIN rules_of : \E i \in 1..Len(rules_of[tx]) :
        /\ account_source_type(rules_of[tx][i]) = "FIXED"
        /\ Get(rules_of[tx][i], "fixed_account_code", "") # ""
        /\ {"side", "role_key"} \ DOMAIN rules_of[tx][i] # {}

\* the transactions that have a node in the graph
transaction_nodes(g) ==
    {n[2][1] : n \in {m \in DOMAIN g.nodes : m[1] = "TX"}}

\* MINI_RAG_GRAPH = MiniRAGGraph(), on the configuration loaded: what the
\* import leaves, the graph summed up as the transactions that have a node
built(loaded, hash_order) ==
    IF loaded.raised THEN loaded
    ELSE IF build_raises(loaded.value.POSTING_RULES) THEN Raised("KeyError")
    ELSE Returned(
             [config |-> loaded.value,
              transactions |->
                 transaction_nodes(
                     MiniRAGGraph(loaded.value.DOCUMENT_TYPES,
                                  loaded.value.POSTING_RULES,
                                  hash_order).graph)])

\* import app.services.rag_service
import_rag_service(file, hash_order) == built(load_config(file), hash_order)

\* the rule sets of posting_engine.json that make EngineRules
EngineRuleSets ==
    <<[je_doc_type |-> "SALES_INVOICE", rules |-> <<RuleTax, RuleAR, RuleRevenue>>],
      [je_doc_type |-> "CASH_IN", rules |-> CashInRules],
      [je_doc_type |-> "GRN_PURCHASE", rules |-> <<RuleClearing, RuleRevenue>>],
      [je_doc_type |-> "CASH_OUT", rules |-> <<RuleInvalid>>]>>

RulePayable ==
    [role_key |-> "PAYABLE", side |-> "CREDIT",
     account_source_type |-> "FIXED", fixed_account_code |-> "3388",
     priority |-> 1]

\* a FIXED rule that has no side
RuleNoSide ==
    [role_key |-> "CASH", account_source_type |-> "FIXED",
     fixed_account_code |-> "1111", priority |-> 1]

\* a transfer between two cash funds kept under one account: a FIXED rule
\* on each side, on the same account code
TransferRules ==
    <<[role_key |-> "CASH", side |-> "DEBIT", account_source_type |-> "FIXED",
       fixed_account_code |-> "1111", priority |-> 1],
      [role_key |-> "CASH_FROM", side |-> "CREDIT",
       account_source_type |-> "FIXED", fixed_account_code |-> "1111",
       priority |-> 2]>>

\* the posting rules of the files: those of the engine; the same with a
\* rule set for PAYROLL, which no document type declares, that has a FIXED
\* account; a LOOKUP rule for PAYROLL alone; a rule without a side; the two
\* rules of a transfer
StartupRuleSets ==
    {EngineRuleSets,
     <<[je_doc_type |-> "CASH_IN", rules |-> TransferRules]>>,
     Append(EngineRuleSets,
            [je_doc_type |-> "PAYROLL", rules |-> <<RulePayable>>]),
     <<[je_doc_type |-> "PAYROLL", rules |-> <<RuleAR>>]>>,
     <<[je_doc_type |-> "CASH_IN", rules |-> <<RuleNoSide>>]>>}

\* the document types of the files: the six, the first two, none
StartupDocuments ==
    {ReferenceDocuments, SubSeq(ReferenceDocuments, 1, 2), <<>>}

config_file(docs, rule_sets) ==
    [exists |-> TRUE,
     config |-> [document_types |-> docs,
                 posting_rules  |-> rule_sets,
                 gl_mapping     |-> EngineMapping,
                 posting_groups |-> <<EngineGroups["GOODS"],
                                      EngineGroups["CUSTOMER"]>>,
                 role_keys      |-> <<>>]]

\* posting_engine.json: missing, without its posting_rules, or complete
StartupFiles ==
    {[exists |-> FALSE],
     [exists |-> TRUE,
      config |-> [document_types |-> ReferenceDocuments,
                  gl_mapping |-> EngineMapping,
                  posting_groups |-> <<>>, role_keys |-> <<>>]]}
        \cup {config_file(docs, rule_sets) :
                 docs \in StartupDocuments, rule_sets \in StartupRuleSets}

StartupResolveArgs == ResolveArgs \cup {<<"PAYROLL", "GOODS", "CUSTOMER">>}

\* the process before the import: nothing is loaded
InitStartup ==
    /\ DOCUMENT_TYPES = <<>>
    /\ POSTING_RULES = EmptyDict
    /\ GL_MAPPING = EmptyDict
    /\ POSTING_GROUPS = EmptyDict
    /\ PYTHONHASHSEED \in HashOrders
    /\ similarity \in EmbeddingModels
    /\ max_history = MAX_HISTORY_DEFAULT
    /\ history = <<>>
    /\ op = NoCall
    /\ ret = Returned("None")
    /\ earlier = NoCall
    /\ calls = NoCalls

\* import app.services.rag_service, once; earlier keeps the import and what
\* it returned (the transactions that have a node in the graph) or raised
Import(file) ==
    /\ earlier = NoCall
    /\ \E r \in {import_rag_service(file, PYTHONHASHSEED)} :
          /\ op' = [name |-> "import", file |-> file]
          /\ ret' = IF r.raised THEN r ELSE Returned(r.value.transactions)
          /\ earlier' = [name |-> "import", args |-> <<file>>, ret |-> ret']
          /\ IF r.raised
             THEN UNCHANGED <<DOCUMENT_TYPES, POSTING_RULES, GL_MAPPING,
                              POSTING_GROUPS>>
             ELSE /\ DOCUMENT_TYPES' = r.value.config.DOCUMENT_TYPES
                  /\ POSTING_RULES' = r.value.config.POSTING_RULES
                  /\ GL_MAPPING' = r.value.config.GL_MAPPING
                  /\ POSTING_GROUPS' = r.value.config.POSTING_GROUPS
    /\ UNCHANGED <<PYTHONHASHSEED, similarity, context>>
    /\ UNCHANGED calls

\* the import has returned: the names of the module are defined
Started == earlier.name = "import" /\ ~ earlier.ret.raised

\* MINI_RAG_RETRIEVER.retrieve(question), once the module is imported
StartedRetrieve(question) ==
    /\ Started
    /\ op' = [name |-> "retrieve", copy |-> "rag_service",
              question |-> question]
    /\ ret' = retrieved(question)
    /\ UNCHANGED <<config, context, earlier>>
    /\ UNCHANGED calls

\* PostingEngineResolver.resolve(...), once the module is imported
StartedResolve(tx, item_group, partner_group) ==
    /\ Started
    /\ op' = [name |-> "resolve", copy |-> "rag_service", tx |-> tx,
              item_group |-> item_group, partner_group |-> partner_group]
    /\ ret' = resolve_rag_service(tx, item_group, partner_group)
    /\ UNCHANGED <<config, context, earlier>>
    /\ UNCHANGED calls

NextStartup ==
    \/ \E file \in StartupFiles : Import(file)
    \/ \E question \in {Q_NHAP_KHO, Q_XIN_CHAO} : StartedRetrieve(question)
    \/ \E args \in StartupResolveArgs :
          StartedResolve(args[1], args[2], args[3])

SpecStartup == InitStartup /\ [][NextStartup]_vars

\* the file is read and some rule set of it names a transaction that no
\* document type of it declares
NamesUndeclared(file) ==
    /\ file.exists
    /\ ~ key_missing(file.config)
    /\ \E i \in 1..Len(file.config.posting_rules) :
          \A j \in 1..Len(file.config.document_types) :
              file.config.document_types[j].transaction_key
                  # file.config.posting_rules[i].je_doc_type

\* C14: when some posting rule set of the configuration names a transaction
\* type that no document type declares, the import raises, and nothing of
\* the engine is called afterwards.
C14_UndeclaredTransaction ==
    (earlier.name = "import" /\ NamesUndeclared(earlier.args[1])) =>
        /\ earlier.ret.raised
        /\ op.name = "import"

\* the import returned with a node for a transaction that no document type
\* declares, and the resolver answers for it
UndeclaredTransactionServed ==
    /\ earlier.name = "import"
    /\ NamesUndeclared(earlier.args[1])
    /\ ~ earlier.ret.raised
    /\ "PAYROLL" \in earlier.ret.value
    /\ op.name = "resolve"
    /\ op.tx = "PAYROLL"
    /\ ~ ret.raised

-----------------------------------------------------------------------------
(* The scores of retrieve: the rules, the penalties and the method.        *)

\* the rules whose conditions the question satisfies
SatisfiedRules(question) ==
    {i \in 1..Len(DISAMBIGUATION_RULES) :
        rule_matches(DISAMBIGUATION_RULES[i], lower(question))}

\* the score retrieve ends with for tx
final_score(result, tx) == Get(result.all_scores, tx, 0)

\* tx is the target of rule i, or of a satisfied rule of a higher boost
BoostedAtLeast(question, i, tx) ==
    \/ DISAMBIGUATION_RULES[i].then = tx
    \/ \E j \in SatisfiedRules(question) :
          /\ DISAMBIGUATION_RULES[j].then = tx
          /\ DISAMBIGUATION_RULES[j].boost > DISAMBIGUATION_RULES[i].boost

\* C15: whenever the question satisfies the conditions of a disambiguation
\* rule, the final score of the target of the rule is strictly greater
\* than the final score of every transaction that neither that rule nor a
\* rule of a higher boost boosts.
C15_DisambiguationPrecedence ==
    (RetrieveCalled /\ ~ ret.raised) =>
        \A i \in SatisfiedRules(op.question) :
            \A tx \in DOMAIN ret.value.all_scores :
                ~ BoostedAtLeast(op.question, i, tx) =>
                    final_score(ret.value, DISAMBIGUATION_RULES[i].then)
                        > final_score(ret.value, tx)

\* extended is base followed by a negative keyword of tx that base has not
NegativeAppended(base, extended, tx) ==
    \E i \in 1..Len(negative_keywords(tx)) :
        /\ ~ text_in(negative_keywords(tx)[i], lower(base))
        /\ extended = base \o negative_keywords(tx)[i]

\* C16: for every transaction and every question, the question followed by
\* a negative keyword of the transaction that it has not gives the
\* transaction a strictly lower score in retrieve than the question alone.
C16_NegativePenalty ==
    (RetrieveCalled /\ ~ ret.raised) =>
        \A base \in Questions :
            \A tx \in DOMAIN ret.value.all_scores :
                (/\ NegativeAppended(base, op.question, tx)
                 /\ ~ retrieved(base).raised) =>
                    final_score(ret.value, tx)
                        < final_score(retrieved(base).value, tx)

\* retrieve has returned on "xuat kho ban hang gia von 5 trieu"
StockIssueClassified ==
    /\ RetrieveCalled
    /\ op.question = Q_XUAT_KHO
    /\ ~ ret.raised

\* C20 as stated: the question "xuat kho ban hang gia von 5 trieu" is
\* classified as DO_SALE and the method reported is "keyword".
C20_Original ==
    StockIssueClassified =>
        /\ ret.value.transaction = "DO_SALE"
        /\ ret.value.method = "keyword"

\* C20 amended: the question "xuat kho ban hang gia von 5 trieu" satisfies
\* the first disambiguation rule, and when retrieve returns it is
\* classified as DO_SALE and the method reported is "disambiguation".
C20_StockIssueSale ==
    StockIssueClassified =>
        /\ 1 \in SatisfiedRules(op.question)
        /\ ret.value.transaction = "DO_SALE"
        /\ ret.value.method = "disambiguation"

\* the question is classified on a keyword of DO_SALE that matched, and no
\* negative keyword of DO_SALE is in it
C20_Witness ==
    /\ StockIssueClassified
    /\ ret.value.matched_keywords # <<>>
    /\ "DO_SALE" \notin DOMAIN ret.value.debug.negative_penalties

-----------------------------------------------------------------------------
(* What a request leaves of the engine.                                    *)

\* the step is a call of retrieve, of resolve or of ask
RequestStep == op'.name \in {"retrieve", "resolve", "ask"}

\* C17: after start-up no call of retrieve, resolve or ask changes the
\* document types, the posting rules, the GL mapping or the posting groups,
\* nor the graph, the indexes and the transaction embeddings, which are
\* built from them once under one iteration order and one embedding model;
\* the history of the conversation context is the only state of the engine
\* that a request can change.
C17_ReadOnlyConfiguration ==
    [][RequestStep => UNCHANGED <<config, max_history>>]_vars

\* resolve has returned the entries of rules that POSTING_RULES does not
\* hold in the order of their priorities
C17_Witness ==
    /\ op.name = "resolve"
    /\ ~ ret.raised
    /\ op.tx \in DOMAIN POSTING_RULES
    /\ POSTING_RULES[op.tx] # sorted_by_priority(POSTING_RULES[op.tx])
    /\ Len(ret.value) = Len(POSTING_RULES[op.tx])

\* the step is the first question of a session, asked right after the
\* question of another session was recorded in an empty buffer
FirstQuestionAfterOtherSession ==
    /\ op.name = "ask"
    /\ op.recorded
    /\ Len(history) = 1
    /\ op'.name = "ask"
    /\ op'.session # op.session

\* C18: each session has its own buffer: the prior transaction that
\* follow-up detection and substitution use in a session was recorded by an
\* earlier question of that session, so the first question of a session is
\* no follow-up and is classified as retrieve classifies it, whatever
\* another session asked before.
C18_SessionIsolation ==
    [][FirstQuestionAfterOtherSession =>
           /\ ~ op'.is_followup
           /\ op'.transaction = op'.retrieved]_vars

-----------------------------------------------------------------------------
(* Two calls of RagAccounting.ask running at once on CONVERSATION_CONTEXT. *)
(* ask is a generator that the server iterates in worker threads; it takes *)
(* no lock, and a thread can be switched between any two of its statements. *)
(* The statements that read or write the history are the steps here; what   *)
(* follows the add (resolve, the prompt, the answer) reads the              *)
(* configuration only.                                                      *)

Threads == {1, 2}

ConcurrentQuestions == {Q_NHAP_KHO, Q_CON_THUE, Q_XIN_CHAO}

\* the buffer when the two calls start: empty, or left by one question
ConcurrentHistories ==
    {<<>>, <<history_entry(Q_HOA_DON, "SALES_INVOICE")>>}

Idle == [pc |-> "idle"]

InitConcurrent ==
    /\ DOCUMENT_TYPES = ReferenceDocuments
    /\ POSTING_RULES = EngineRules
    /\ GL_MAPPING = EngineMapping
    /\ POSTING_GROUPS = EngineGroups
    /\ PYTHONHASHSEED \in HashOrders
    /\ similarity \in EmbeddingModels
    /\ max_history = MAX_HISTORY_DEFAULT
    /\ history \in ConcurrentHistories
    /\ op = NoCall
    /\ ret = Returned("None")
    /\ earlier = NoCall
    /\ calls = [t \in Threads |-> Idle]

\* the call after is_followup = CONVERSATION_CONTEXT.is_followup_question(
\* question), line 753
checked_followup(question, is_followup) ==
    IF is_followup.raised
    THEN [pc |-> "raised", question |-> question, transaction |-> "None"]
    ELSE [pc |-> "is_followup", question |-> question,
          is_followup |-> is_followup.value]

\* the call after result = MINI_RAG_RETRIEVER.retrieve(question) and the
\* choice of tx, lines 763-771
classified(call, result) ==
    IF result.raised
    THEN [pc |-> "raised", question |-> call.question,
          transaction |-> "None"]
    ELSE [pc |-> "retrieved", question |-> call.question,
          is_followup |-> call.is_followup, context_tx |-> call.context_tx,
          retrieved |-> result.value.transaction,
          direct_match |-> ~ no_direct_match(result.value),
          transaction |-> answer_transaction(call.is_followup,
                                             call.context_tx, result.value)]

\* line 753
AskIsFollowup(t, question) ==
    /\ calls[t].pc = "idle"
    /\ calls' = [calls EXCEPT ![t] =
                    checked_followup(question,
                                     is_followup_question(history, question))]
    /\ UNCHANGED <<config, context, op, ret, earlier>>

\* line 754: context_tx = CONVERSATION_CONTEXT.get_last_transaction()
AskGetLastTransaction(t) ==
    /\ calls[t].pc = "is_followup"
    /\ calls' = [calls EXCEPT ![t] =
                    [pc |-> "context_tx", question |-> @.question,
                     is_followup |-> @.is_followup,
                     context_tx |-> get_last_transaction(history)]]
    /\ UNCHANGED <<config, context, op, ret, earlier>>

\* lines 763-771
AskRetrieve(t) ==
    /\ calls[t].pc = "context_tx"
    /\ calls' = [calls EXCEPT ![t] =
                    classified(@, retrieved(@.question))]
    /\ UNCHANGED <<config, context, op, ret, earlier>>

\* an add that records what retrieve returned, whatever ask substituted
add_retrieved(call) == add(history, call.question, call.retrieved)

\* the history after line 781: CONVERSATION_CONTEXT.add(question, tx)
add_tx(call) == add(history, call.question, call.transaction)

\* line 781
AskAdd(t) ==
    /\ calls[t].pc = "retrieved"
    /\ history' = add_tx(calls[t])
    /\ calls' = [calls EXCEPT ![t].pc = "recorded"]
    /\ UNCHANGED <<config, max_history, op, ret, earlier>>

\* the call after entries = PostingEngineResolver.resolve(tx, item_group,
\* partner_group), line 785, with the default groups of ask
resolved(call) ==
    [pc |-> "resolved", question |-> call.question,
     is_followup |-> call.is_followup, context_tx |-> call.context_tx,
     retrieved |-> call.retrieved, direct_match |-> call.direct_match,
     transaction |-> call.transaction,
     resolve_tx |-> call.transaction,
     entries |-> resolve_rag_service(call.transaction, "GOODS", "CUSTOMER")]

\* line 785
AskResolve(t) ==
    /\ calls[t].pc = "recorded"
    /\ calls' = [calls EXCEPT ![t] = resolved(@)]
    /\ UNCHANGED <<config, context, op, ret, earlier>>

NextConcurrent ==
    \/ \E t \in Threads, question \in ConcurrentQuestions :
          AskIsFollowup(t, question)
    \/ \E t \in Threads : AskGetLastTransaction(t)
    \/ \E t \in Threads : AskRetrieve(t)
    \/ \E t \in Threads : AskAdd(t)
    \/ \E t \in Threads : AskResolve(t)

SpecConcurrent == InitConcurrent /\ [][NextConcurrent]_vars

\* both calls have left the statements that touch the history
BothReturned ==
    \A t \in Threads : calls[t].pc \in {"recorded", "resolved", "raised"}

\* the history before the two calls: the history less what they recorded
history_before ==
    SubSeq(history, 1,
           Len(history) - Cardinality({t \in Threads :
                                          calls[t].pc \in {"recorded",
                                                           "resolved"}}))

\* the transactions and the history that the call of first and then the
\* call of second leave, run one after the other on the history h
one_after_the_other(h, first, second) ==
    [history |->
        ask(ask(h, calls[first].question, "GOODS", "CUSTOMER").history,
            calls[second].question, "GOODS", "CUSTOMER").history,
     transaction |->
        (first :> ask(h, calls[first].question, "GOODS",
                      "CUSTOMER").transaction)
        @@ (second :>
               ask(ask(h, calls[first].question, "GOODS",
                       "CUSTOMER").history,
                   calls[second].question, "GOODS", "CUSTOMER").transaction)]

\* C19: the accesses to the buffer are serialized: when two calls of ask on
\* the same buffer have run interleaved, the transaction of each call and the
\* history they leave are those of the two calls run one after the other,
\* in one of the two orders.
C19_Serialized ==
    BothReturned =>
        \E first \in Threads : \E second \in Threads \ {first} :
            [history |-> history,
             transaction |-> [t \in Threads |-> calls[t].transaction]]
                = one_after_the_other(history_before, first, second)

-----------------------------------------------------------------------------
(* The selection of retrieve: the transaction, its score and the method.   *)

\* C25: the transaction retrieve returns is one of those that have the
\* greatest accumulated score, and the score of the result is the
\* accumulated score of that transaction.
C25_MaximumScore ==
    (RetrieveCalled /\ ~ ret.raised) =>
        /\ ret.value.transaction \in DOMAIN ret.value.all_scores
        /\ \A tx \in DOMAIN ret.value.all_scores :
              ret.value.all_scores[tx]
                  <= ret.value.all_scores[ret.value.transaction]
        /\ ret.value.score = ret.value.all_scores[ret.value.transaction]

\* retrieve has returned a transaction that is not the first one scored,
\* with a positive score that another transaction does not reach
C25_Witness ==
    /\ RetrieveCalled
    /\ ~ ret.raised
    /\ ret.value.transaction # "DO_SALE"
    /\ ret.value.score > 0
    /\ \E tx \in DOMAIN ret.value.all_scores :
          ret.value.all_scores[tx] < ret.value.score

\* C26: the method names the step that decided for the transaction
\* returned: "disambiguation" only when the rule applied boosts that
\* transaction, "graph_traversal" only when the traversal reached some
\* concept, and "embedding_only" for a transaction that no keyword, concept,
\* rule or traversal contributed to.
C26_DecisiveMethod ==
    (RetrieveCalled /\ ~ ret.raised) =>
        /\ ret.value.method = "disambiguation" =>
              ret.value.debug.disambiguation_rule = ret.value.transaction
        /\ ret.value.method = "graph_traversal" =>
              ret.value.debug.graph_traversal # {}
        /\ (/\ ret.value.matched_keywords = <<>>
            /\ ret.value.matched_concepts = <<>>
            /\ ret.value.debug.disambiguation_rule # ret.value.transaction
            /\ ret.value.debug.graph_traversal = {}) =>
              ret.value.method = "embedding_only"

\* the transactions that the document types of the configuration declare
DeclaredTransactions ==
    {DOCUMENT_TYPES[i].transaction_key : i \in 1..Len(DOCUMENT_TYPES)}

\* C29: whatever the question and the configuration, the transaction that
\* retrieve returns is one that the document types of the configuration
\* declare.
C29_DeclaredTransaction ==
    (op.name = "retrieve" /\ ~ ret.raised) =>
        ret.value.transaction \in DeclaredTransactions

\* the rule is a FIXED rule that has an account code
HasFixedAccount(rule) ==
    /\ account_source_type(rule) = "FIXED"
    /\ Get(rule, "fixed_account_code", "") # ""

\* the graph has an edge of the type of the side of the rule from tx to the
\* node of the account of the rule
HasAccountEdge(g, tx, rule) ==
    /\ has_node(g, node_id("ACC", <<rule.fixed_account_code>>))
    /\ has_node(g, node_id("TX", <<tx>>))
    /\ \E i \in 1..Len(g.succ[node_id("TX", <<tx>>)]) :
          /\ g.succ[node_id("TX", <<tx>>)][i].node
                = node_id("ACC", <<rule.fixed_account_code>>)
          /\ g.succ[node_id("TX", <<tx>>)][i].data.edge_type = rule.side

\* the account codes of the FIXED rules of the configuration
FixedAccounts ==
    UNION {{POSTING_RULES[tx][i].fixed_account_code :
               i \in {j \in 1..Len(POSTING_RULES[tx]) :
                        HasFixedAccount(POSTING_RULES[tx][j])}} :
           tx \in DOMAIN POSTING_RULES}

\* C27: once the graph is built, every FIXED rule that has an account code
\* has the node of its account in the graph and an edge from its
\* transaction to that node whose type is the side of the rule, and the
\* graph has no other account node: a LOOKUP rule adds none.
C27_AccountEdges ==
    Started =>
        /\ \A tx \in DOMAIN POSTING_RULES :
              \A i \in 1..Len(POSTING_RULES[tx]) :
                  HasFixedAccount(POSTING_RULES[tx][i]) =>
                      HasAccountEdge(MINI_RAG_GRAPH.graph, tx,
                                     POSTING_RULES[tx][i])
        /\ \A n \in DOMAIN MINI_RAG_GRAPH.graph.nodes :
              n[1] = "ACC" => n[2][1] \in FixedAccounts

\* C28: when item_group is a declared posting group of type ITEM_GROUP, the
\* result of resolve is the same for every partner_group, and a LOOKUP rule
\* whose role item_group does not map gets the empty account code, whether
\* or not partner_group maps the role.
C28_ItemGroupOnly ==
    (ResolveReturned /\ IsItemGroup(op.item_group)) =>
        /\ \A partner_group \in PartnerGroupArgs \cup ItemGroupArgs :
              resolve(op.copy, op.tx, op.item_group, partner_group) = ret
        /\ \A i \in 1..Len(ret.value) :
              (/\ IsLookupRule(VisitedRules[i])
               /\ ~ HasMapping(op.item_group, VisitedRules[i].role_key))
                  => ret.value[i].account = ""

\* C28 witness: item_group is of type ITEM_GROUP and has no account for the
\* role of a LOOKUP rule, partner_group has one, and the entry of the rule
\* has the empty account code.
C28_Witness ==
    /\ ResolveReturned
    /\ IsItemGroup(op.item_group)
    /\ \E i \in 1..Len(ret.value) :
          /\ IsLookupRule(VisitedRules[i])
          /\ ~ HasMapping(op.item_group, VisitedRules[i].role_key)
          /\ HasMapping(op.partner_group, VisitedRules[i].role_key)
          /\ ret.value[i].account = ""

\* the call of thread t has passed its add
Recorded(t) == calls[t].pc \in {"recorded", "resolved"}

\* the places of the history that hold the entry of the call of thread t
EntriesOf(t) ==
    {i \in 1..Len(history) :
        history[i] = history_entry(calls[t].question, calls[t].transaction)}

\* the places of the history written by the calls that are running: the
\* history they started on holds no question of theirs
EntriesOfCalls ==
    {i \in 1..Len(history) : history[i].question \in ConcurrentQuestions}

\* C30: a call of ask does follow-up check, retrieval, record, resolve in
\* this order. The history holds one entry for each call that has passed its
\* add and none for a call that has not; the entry of a call is its question
\* with the transaction of the context when ask substituted it (a follow-up,
\* a transaction in the context, no direct match) and the transaction
\* retrieve returned otherwise; and a call that has resolved has passed its
\* add, and resolved the transaction it recorded.
C30_AskOrder ==
    /\ Cardinality(EntriesOfCalls)
          = Cardinality({t \in Threads : Recorded(t)})
    /\ \A t \in Threads :
          Recorded(t) =>
             /\ Cardinality(EntriesOf(t))
                   = Cardinality({u \in Threads :
                        /\ Recorded(u)
                        /\ calls[u].question = calls[t].question
                        /\ calls[u].transaction = calls[t].transaction})
             /\ calls[t].transaction =
                   IF /\ calls[t].is_followup
                      /\ calls[t].context_tx # "None"
                      /\ ~ calls[t].direct_match
                   THEN calls[t].context_tx
                   ELSE calls[t].retrieved
    /\ \A t \in Threads :
          calls[t].pc = "resolved" =>
             /\ calls[t].resolve_tx = calls[t].transaction
             /\ EntriesOf(t) # {}
             /\ calls[t].entries
                   = resolve_rag_service(calls[t].transaction, "GOODS",
                                         "CUSTOMER")

\* C30 witness: a call that substituted the transaction of the context for
\* the one retrieve returned has recorded it and resolved it.
C30_Witness ==
    \E t \in Threads :
        /\ calls[t].pc = "resolved"
        /\ calls[t].transaction = calls[t].context_tx
        /\ calls[t].transaction # calls[t].retrieved
        /\ EntriesOf(t) # {}
        /\ Len(calls[t].entries.value) > 0

-----------------------------------------------------------------------------
(* One call of MiniRAGRetriever.retrieve, step by step: the scoring steps   *)
(* of rag_service.py in the order retrieve runs them, each reading and      *)
(* writing the locals of the call (scores, matched_keywords,                *)
(* matched_concepts, debug).                                                *)

Q_HOA_DON_PHAI_TRA == <<"ho/a", "ddo+n", "pha?i", "tra?">>
Q_VAT_DAU_RA == <<"VAT", "dda^-u", "ra">>
Q_HOA_DON_MUA ==
    <<"ho/a", "ddo+n", "mua", "ha-ng", "pha?i", "thu", "kha/ch">>

ScoringQuestions ==
    Questions \cup {Q_HOA_DON_PHAI_TRA, Q_VAT_DAU_RA, Q_HOA_DON_MUA}

InitScoring ==
    /\ DOCUMENT_TYPES = ReferenceDocuments
    /\ POSTING_RULES = EngineRules
    /\ GL_MAPPING = EngineMapping
    /\ POSTING_GROUPS = EngineGroups
    /\ PYTHONHASHSEED \in HashOrders
    /\ similarity \in RetrieverModels
    /\ max_history = MAX_HISTORY_DEFAULT
    /\ history = <<>>
    /\ op = NoCall
    /\ ret = Returned("None")
    /\ earlier = NoCall
    /\ calls = NoCalls

\* the call of retrieve at the statement pc with the locals st
retrieving(pc, query, st) == <<[pc |-> pc, query |-> query, st |-> st]>>

\* the call is at the statement pc
At(pc) == calls # NoCalls /\ calls[1].pc = pc

\* lines 485-496: query_lower, scores and debug
RetrieveBegin(query) ==
    /\ calls = NoCalls
    /\ calls' = retrieving("begin", query, retrieve_locals)
    /\ UNCHANGED <<config, context, op, ret, earlier>>

\* lines 498-507
RetrieveKeywordMatching ==
    /\ At("begin")
    /\ calls' = retrieving("keyword_matching", calls[1].query,
                           keyword_matching(MINI_RAG_GRAPH,
                                            lower(calls[1].query),
                                            calls[1].st))
    /\ UNCHANGED <<config, context, op, ret, earlier>>

\* lines 509-518
RetrieveConceptMatching ==
    /\ At("keyword_matching")
    /\ calls' = retrieving("concept_matching", calls[1].query,
                           concept_matching(MINI_RAG_GRAPH,
                                            lower(calls[1].query),
                                            calls[1].st))
    /\ UNCHANGED <<config, context, op, ret, earlier>>

\* lines 520-532
RetrieveQueryExpansion ==
    /\ At("concept_matching")
    /\ calls' = retrieving("query_expansion", calls[1].query,
                           query_expansion(MINI_RAG_GRAPH, calls[1].query,
                                           calls[1].st))
    /\ UNCHANGED <<config, context, op, ret, earlier>>

\* lines 534-536
RetrieveNegativePenalty ==
    /\ At("query_expansion")
    /\ calls' = retrieving("negative_penalty", calls[1].query,
                           apply_negative_penalty(lower(calls[1].query),
                                                  calls[1].st))
    /\ UNCHANGED <<config, context, op, ret, earlier>>

\* lines 538-541
RetrieveDisambiguation ==
    /\ At("negative_penalty")
    /\ calls' = retrieving("disambiguation", calls[1].query,
                           apply_disambiguation(lower(calls[1].query),
                                                calls[1].st))
    /\ UNCHANGED <<config, context, op, ret, earlier>>

\* lines 543-558
RetrieveGraphTraversal ==
    /\ At("disambiguation")
    /\ calls' = retrieving("graph_traversal", calls[1].query,
                           graph_traversal(MINI_RAG_GRAPH, calls[1].st))
    /\ UNCHANGED <<config, context, op, ret, earlier>>

\* lines 560-568: encode raises out of retrieve when the embedding model
\* is unavailable
RetrieveEmbeddingSimilarity ==
    /\ At("graph_traversal")
    /\ IF calls[1].query \in MINI_RAG_RETRIEVER.embed_model.unavailable
       THEN /\ calls' = retrieving("raised", calls[1].query, calls[1].st)
            /\ op' = [name |-> "retrieve", copy |-> "rag_service",
                      question |-> calls[1].query]
            /\ ret' = Raised("Exception")
       ELSE /\ calls' = retrieving("embedding_similarity", calls[1].query,
                                   embedding_similarity(MINI_RAG_RETRIEVER,
                                                        calls[1].query,
                                                        calls[1].st))
            /\ UNCHANGED <<op, ret>>
    /\ UNCHANGED <<config, context, earlier>>

\* lines 570-594
RetrieveReturn ==
    /\ At("embedding_similarity")
    /\ calls' = retrieving("returned", calls[1].query, calls[1].st)
    /\ op' = [name |-> "retrieve", copy |-> "rag_service",
              question |-> calls[1].query]
    /\ ret' = choose_best(MINI_RAG_RETRIEVER, calls[1].query, calls[1].st)
    /\ UNCHANGED <<config, context, earlier>>

NextScoring ==
    \/ \E query \in ScoringQuestions : RetrieveBegin(query)
    \/ RetrieveKeywordMatching
    \/ RetrieveConceptMatching
    \/ RetrieveQueryExpansion
    \/ RetrieveNegativePenalty
    \/ RetrieveDisambiguation
    \/ RetrieveGraphTraversal
    \/ RetrieveEmbeddingSimilarity
    \/ RetrieveReturn

SpecScoring == InitScoring /\ [][NextScoring]_vars

-----------------------------------------------------------------------------
(* Properties of the scoring steps, checked under SpecScoring               *)

\* the score of tx in the locals st: a missing key of the defaultdict is 0
ScoreIn(st, tx) == Get(st.scores.val, tx, 0)

\* the step from the statement from to the statement to is being taken
Step(from, to) == At(from) /\ calls' # NoCalls /\ calls'[1].pc = to

\* the first, in declaration order, of the rules that the question satisfies
FirstSatisfied(question) ==
    DISAMBIGUATION_RULES[CHOOSE i \in SatisfiedRules(question) :
                            \A j \in SatisfiedRules(question) : i <= j]

\* the transactions that have a score or could be given one
ScoredTransactions(st) ==
    DOMAIN st.scores.val \cup DeclaredTransactions
        \cup {DISAMBIGUATION_RULES[i].then : i \in 1..Len(DISAMBIGUATION_RULES)}

\* C21: the disambiguation step is first-match-wins. When the question
\* satisfies no rule the step changes no score; when it satisfies one or
\* more, the target of the first of them in declaration order gains the
\* boost of that rule, once, and no other score changes.
C21_FirstMatchWins ==
    [][Step("negative_penalty", "disambiguation") =>
          IF SatisfiedRules(calls[1].query) = {}
          THEN /\ calls'[1].st.scores = calls[1].st.scores
               /\ calls'[1].st.disambiguation_rule = "None"
          ELSE /\ \A tx \in ScoredTransactions(calls'[1].st) :
                     ScoreIn(calls'[1].st, tx) =
                        ScoreIn(calls[1].st, tx)
                        + (IF tx = FirstSatisfied(calls[1].query).then
                           THEN FirstSatisfied(calls[1].query).boost ELSE 0)
               /\ calls'[1].st.disambiguation_rule
                     = FirstSatisfied(calls[1].query).then]_vars

\* C21 witness: the question satisfies two rules with different targets,
\* and the step has boosted the target of the first of them.
C21_Witness ==
    /\ At("disambiguation")
    /\ \E i, j \in SatisfiedRules(calls[1].query) :
          /\ i < j
          /\ DISAMBIGUATION_RULES[i].then # DISAMBIGUATION_RULES[j].then
    /\ calls[1].st.disambiguation_rule = FirstSatisfied(calls[1].query).then
    /\ ScoreIn(calls[1].st, FirstSatisfied(calls[1].query).then) > 0

\* the keywords of the index that the text contains and that lead to tx
KeywordsFound(G, tx, text) ==
    {i \in 1..Len(G.keyword_to_tx.keys) :
        /\ tx \in Range(G.keyword_to_tx.val[G.keyword_to_tx.keys[i]])
        /\ text_in(G.keyword_to_tx.keys[i], text)}

\* C22: the expansion step runs only when keyword matching and concept
\* matching both found nothing. When one of them found something the step
\* changes no score and matches nothing more; when neither did, every
\* transaction gains 2.0 for each keyword of its own that the expanded text
\* contains, and nothing else.
C22_ExpansionOnlyWithoutMatch ==
    [][Step("concept_matching", "query_expansion") =>
          IF \/ calls[1].st.matched_keywords.keys # <<>>
             \/ calls[1].st.matched_concepts.keys # <<>>
          THEN calls'[1].st = calls[1].st
          ELSE \A tx \in ScoredTransactions(calls'[1].st) :
                  ScoreIn(calls'[1].st, tx) =
                     ScoreIn(calls[1].st, tx)
                     + 2 * ScoreUnit
                       * Cardinality(KeywordsFound(
                            MINI_RAG_GRAPH, tx,
                            expand_query(calls[1].query)))]_vars

\* C22 witness: a question without a direct match whose expanded text
\* contains a keyword, credited at 2.0
C22_Witness ==
    /\ At("query_expansion")
    /\ calls[1].st.matched_concepts.keys = <<>>
    /\ \E tx \in DOMAIN calls[1].st.scores.val :
          /\ calls[1].st.scores.val[tx] = 2 * ScoreUnit
          /\ Cardinality(KeywordsFound(MINI_RAG_GRAPH, tx,
                                       lower(calls[1].query))) = 0
          /\ Cardinality(KeywordsFound(MINI_RAG_GRAPH, tx,
                                       expand_query(calls[1].query))) = 1

\* the declared keywords of tx, as the configuration writes them
DeclaredKeywords(tx) ==
    UNION {Range(Get(DOCUMENT_TYPES[i], "keywords", <<>>)) :
              i \in {j \in 1..Len(DOCUMENT_TYPES) :
                       DOCUMENT_TYPES[j].transaction_key = tx}}

\* the concepts of tx, as CONCEPTS writes them
DeclaredConcepts(tx) == Range(Get(CONCEPTS, tx, <<>>))

\* the texts of the set that the text contains
ContainedIn(texts, text) == {t \in texts : text_in(t, text)}

\* the texts of the set in lower case
Lowered(texts) == {lower(t) : t \in texts}

\* C23 as the specification states it: after keyword and concept matching
\* the score of a transaction is 3.0 for each of its declared keywords that
\* is, as written, a substring of the question in lower case, plus 2.0 for
\* each of its concepts that is.
C23_Original ==
    At("concept_matching") =>
        \A tx \in DeclaredTransactions :
            ScoreIn(calls[1].st, tx) =
                3 * ScoreUnit
                  * Cardinality(ContainedIn(DeclaredKeywords(tx),
                                            lower(calls[1].query)))
                + 2 * ScoreUnit
                  * Cardinality(ContainedIn(DeclaredConcepts(tx),
                                            lower(calls[1].query)))

\* C23: keywords and concepts are matched in lower case. After keyword and
\* concept matching the score of a transaction is 3.0 for each distinct
\* lower-cased keyword of its own that is a substring of the question in
\* lower case, plus 2.0 for each distinct lower-cased concept of its own
\* that is; a keyword or concept of several transactions counts for each.
C23_KeywordConceptScore ==
    At("concept_matching") =>
        /\ \A tx \in DeclaredTransactions :
              ScoreIn(calls[1].st, tx) =
                  3 * ScoreUnit
                    * Cardinality(ContainedIn(Lowered(DeclaredKeywords(tx)),
                                              lower(calls[1].query)))
                  + 2 * ScoreUnit
                    * Cardinality(ContainedIn(Lowered(DeclaredConcepts(tx)),
                                              lower(calls[1].query)))
        /\ DOMAIN calls[1].st.scores.val \subseteq DeclaredTransactions

\* C23 witness: a transaction scored for a keyword that the configuration
\* writes with capitals, and for a concept
C23_Witness ==
    /\ At("concept_matching")
    /\ \E tx \in DeclaredTransactions :
          /\ \E kw \in DeclaredKeywords(tx) :
                /\ lower(kw) # kw
                /\ text_in(lower(kw), lower(calls[1].query))
          /\ ContainedIn(Lowered(DeclaredConcepts(tx)),
                         lower(calls[1].query)) # {}
          /\ ScoreIn(calls[1].st, tx) >= 5 * ScoreUnit

\* the concept nodes of tx in the graph
ConceptsOf(g, tx) ==
    {e.node : e \in Range(get_neighbors(g, node_id("TX", <<tx>>),
                                        "HAS_CONCEPT"))}

\* the concept nodes that a RELATED edge links to a concept of tx
RelatedTo(g, tx) ==
    UNION {{e.node : e \in Range(get_neighbors(g, c, "RELATED"))} :
              c \in ConceptsOf(g, tx)}

\* the transactions whose score is positive in the locals st
Positive(st) == {tx \in DOMAIN st.scores.val : st.scores.val[tx] > 0}

\* C24: in the traversal step, every transaction Y that owns a concept
\* RELATED to a concept of another transaction X whose score is positive
\* after disambiguation receives an addition (at least the 0.25 of one
\* RELATED edge of weight 0.5), whatever the order of the visit; and a
\* transaction that is the only positive one receives nothing from its own
\* concepts.
C24_TraversalAdditions ==
    [][Step("disambiguation", "graph_traversal") =>
          /\ \A X \in Positive(calls[1].st) :
                \A Y \in DeclaredTransactions \ {X} :
                    (ConceptsOf(MINI_RAG_GRAPH.graph, Y)
                        \cap RelatedTo(MINI_RAG_GRAPH.graph, X) # {})
                    => ScoreIn(calls'[1].st, Y)
                          >= ScoreIn(calls[1].st, Y) + ScoreUnit \div 4
          /\ \A X \in Positive(calls[1].st) :
                Positive(calls[1].st) = {X}
                    => ScoreIn(calls'[1].st, X) = ScoreIn(calls[1].st, X)]_vars


====
